---- MODULE Spec2Model ----
(***************************************************************************)
(* State-machine model of the subprocess session lifecycle manager:        *)
(*   src/src/services/claude-cli.ts       (launcher + stream parser)       *)
(*   src/src/services/discuss-workflow.ts (registry + lifecycle controller)*)
(*   src/src/services/database.ts         (active_workflows rows)          *)
(*                                                                         *)
(* JavaScript values whose dynamic type matters are tagged records         *)
(* [t |-> "string", v |-> ...]; object references (sessions, subprocess    *)
(* handles, message timestamps) are positive naturals, 0 standing for      *)
(* null / undefined.                                                       *)
(***************************************************************************)
EXTENDS Integers, Sequences, FiniteSets, TLC

\* ------------------------------------------------------------------------
\* Bounds of the model
\* ------------------------------------------------------------------------
MaxSessions == 2
MaxChildren == 2
MaxMsgs == 2

\* ------------------------------------------------------------------------
\* Tagged JavaScript values
\* ------------------------------------------------------------------------
\* (the text of a string is a sequence of atoms, <<>> being the empty string)
Undef == [t |-> "undefined", v |-> <<>>]
JNull == [t |-> "null", v |-> <<>>]
Str(s) == [t |-> "string", v |-> s]
Num(n) == [t |-> "number", n |-> n]
Arr(a) == [t |-> "array", a |-> a]

IsStr(x) == x.t = "string"
IsNum(x) == x.t = "number"
IsArr(x) == x.t = "array"

\* JavaScript truthiness of a tagged value
Truthy(x) ==
    CASE x.t = "string" -> x.v # <<>>
      [] x.t = "number" -> x.n # 0
      [] x.t = "array" -> TRUE
      [] x.t = "object" -> TRUE
      [] OTHER -> FALSE

\* ------------------------------------------------------------------------
\* Text of the subprocess's stdout.  A string is a sequence of symbols:
\*   NL  the newline character          SP  a whitespace character
\*   X   a character of non-JSON text   OBJ(o), END  the two halves of the
\*   JSON text of value o (a line is JSON only when both halves are there)
\*   CH  a character outside ASCII, inside a string of the JSON text
\*   BAD the replacement character U+FFFD
\* Stdout itself is bytes: the symbols above except CH and BAD are one byte
\* each, and CH is written as the two bytes HI LO.
\* ------------------------------------------------------------------------
NL == [c |-> "nl", o |-> JNull]
SP == [c |-> "sp", o |-> JNull]
X == [c |-> "x", o |-> JNull]
END == [c |-> "end", o |-> JNull]
OBJ(o) == [c |-> "obj", o |-> o]
CH == [c |-> "ch", o |-> JNull]
BAD == [c |-> "bad", o |-> JNull]
HI == [c |-> "hi", o |-> JNull]
LO == [c |-> "lo", o |-> JNull]

\* chunk.toString(): UTF-8 decoding of one chunk by itself.  A lead byte
\* with its continuation byte is the character; a lead byte with no
\* continuation byte after it in the chunk, and a continuation byte with no
\* lead byte before it, each decode to U+FFFD.
RECURSIVE Decode(_)
Decode(bytes) ==
    IF bytes = <<>> THEN <<>>
    ELSE IF bytes[1].c = "hi"
    THEN IF Len(bytes) >= 2 /\ bytes[2].c = "lo"
         THEN <<CH>> \o Decode(SubSeq(bytes, 3, Len(bytes)))
         ELSE <<BAD>> \o Decode(Tail(bytes))
    ELSE IF bytes[1].c = "lo" THEN <<BAD>> \o Decode(Tail(bytes))
    ELSE <<bytes[1]>> \o Decode(Tail(bytes))

\* String.prototype.split("\n"): the segments between newline characters
RECURSIVE SplitNL(_)
SplitNL(s) ==
    IF \A i \in 1..Len(s) : s[i].c # "nl" THEN <<s>>
    ELSE LET k == CHOOSE i \in 1..Len(s) :
                    s[i].c = "nl" /\ \A j \in 1..(i-1) : s[j].c # "nl"
         IN <<SubSeq(s, 1, k-1)>> \o SplitNL(SubSeq(s, k+1, Len(s)))

\* String.prototype.trim()
RECURSIVE Trim(_)
Trim(s) ==
    IF s = <<>> THEN s
    ELSE IF s[1].c = "sp" THEN Trim(Tail(s))
    ELSE IF s[Len(s)].c = "sp" THEN Trim(SubSeq(s, 1, Len(s)-1))
    ELSE s

\* what a text reads once its characters outside ASCII (runs of class
\* "e-acute") have each been decoded as two U+FFFD
GarbleText(txt) ==
    [i \in 1..Len(txt) |->
        IF txt[i].ch = "e-acute" THEN [ch |-> "U+FFFD", n |-> 2 * txt[i].n]
        ELSE txt[i]]
Garbled(o) ==
    IF o.t = "object" /\ o.result.t = "string"
    THEN [o EXCEPT !.result = [t |-> "string", v |-> GarbleText(@.v)]]
    ELSE o

\* JSON.parse(line): ok with the value, or a thrown SyntaxError.  The
\* characters between the two halves of a JSON text are those of its result
\* string that lie outside ASCII; U+FFFD among them is part of the string.
JsonParse(line) ==
    LET body == Trim(line)
        n == Len(body)
    IN IF /\ n >= 2 /\ body[1].c = "obj" /\ body[n].c = "end"
          /\ \A i \in 2..(n-1) : body[i].c \in {"ch", "bad"}
       THEN [ok |-> TRUE,
             o |-> IF \E i \in 2..(n-1) : body[i].c = "bad"
                   THEN Garbled(body[1].o) ELSE body[1].o]
       ELSE [ok |-> FALSE, o |-> JNull]

\* A parsed JSON object of the stream; absent fields are Undef.  usage and
\* content are the fields of the record's message (obj.message?.usage,
\* obj.message?.content).
JObj(type, usage, content, result, session_id, total_cost_usd, num_turns) ==
    [t |-> "object", type |-> type, usage |-> usage, content |-> content,
     result |-> result, session_id |-> session_id,
     total_cost_usd |-> total_cost_usd, num_turns |-> num_turns]
Usage(input, creation, read, output) ==
    [t |-> "object", input_tokens |-> input,
     cache_creation_input_tokens |-> creation,
     cache_read_input_tokens |-> read, output_tokens |-> output]
Block(type, text) == [t |-> "object", type |-> type, text |-> text]

NumOr0(x) == IF IsNum(x) THEN x.n ELSE 0

\* usage.input_tokens etc.: a property read, undefined on a non-object
UsageField(u, f) == IF u.t = "object" THEN u[f] ELSE Undef

\* block.type === "text" && typeof block.text === "string"
IsTextBlock(b) == b.t = "object" /\ b.type = "text" /\ IsStr(b.text)

\* the text of the last text block of a content array, or cur if none
RECURSIVE LastText(_, _)
LastText(blocks, cur) ==
    IF blocks = <<>> THEN cur
    ELSE LastText(Tail(blocks),
                  IF IsTextBlock(blocks[1]) THEN blocks[1].text.v ELSE cur)

\* texts of the text blocks of an array: filter(...).map(b => b.text)
RECURSIVE TextsOf(_)
TextsOf(blocks) ==
    IF blocks = <<>> THEN <<>>
    ELSE (IF IsTextBlock(blocks[1]) THEN <<blocks[1].text.v>> ELSE <<>>)
         \o TextsOf(Tail(blocks))

\* Array.prototype.join("\n") of a non-empty array of strings
RECURSIVE JoinNL(_)
JoinNL(texts) ==
    IF Len(texts) = 1 THEN texts[1]
    ELSE texts[1] \o <<"\n">> \o JoinNL(Tail(texts))

\* a null block makes block.type throw
HasBadBlock(blocks) == \E i \in 1..Len(blocks) : blocks[i].t = "null"

\* closure variables of the completion promise of spawnDiscussCli
ParserInit ==
    [costUsd |-> Undef, response |-> Undef, sessionId |-> Undef,
     inputTokens |-> Undef, outputTokens |-> Undef, numTurns |-> Undef,
     assistantText |-> <<>>, stdout |-> <<>>]

\* an "assistant" branch that adds each usage to the running count
OnAssistantSums(ps, obj) ==
    LET u == obj.usage
        p1 == IF Truthy(u)
              THEN [ps EXCEPT
                     !.inputTokens =
                        Num(NumOr0(@)
                            + NumOr0(UsageField(u, "input_tokens"))
                            + NumOr0(UsageField(u, "cache_creation_input_tokens"))
                            + NumOr0(UsageField(u, "cache_read_input_tokens"))),
                     !.outputTokens = IF IsNum(UsageField(u, "output_tokens"))
                                      THEN UsageField(u, "output_tokens") ELSE @]
              ELSE ps
    IN IF IsArr(obj.content) /\ ~HasBadBlock(obj.content.a)
       THEN [p1 EXCEPT !.assistantText = LastText(obj.content.a, @)]
       ELSE p1

\* the "assistant" branch of the data handler: the usage, then the content,
\* which logStreamContent walks first (a null block makes it throw, and the
\* rest of the line is skipped)
OnAssistant(ps, obj) ==
    LET u == obj.usage
        p1 == IF Truthy(u)
              THEN [ps EXCEPT
                     !.inputTokens =
                        Num(NumOr0(UsageField(u, "input_tokens"))
                            + NumOr0(UsageField(u, "cache_creation_input_tokens"))
                            + NumOr0(UsageField(u, "cache_read_input_tokens"))),
                     !.outputTokens = IF IsNum(UsageField(u, "output_tokens"))
                                      THEN UsageField(u, "output_tokens") ELSE @]
              ELSE ps
    IN IF IsArr(obj.content) /\ ~HasBadBlock(obj.content.a)
       THEN [p1 EXCEPT !.assistantText = LastText(obj.content.a, @)]
       ELSE p1

\* a "result" branch that forgets the session id
OnResultNoSession(ps, obj) ==
    LET p1 == IF IsNum(obj.total_cost_usd)
              THEN [ps EXCEPT !.costUsd = obj.total_cost_usd] ELSE ps
        bad == IsArr(obj.result) /\ HasBadBlock(obj.result.a)
        p2 == IF IsStr(obj.result) /\ obj.result.v # <<>>
              THEN [p1 EXCEPT !.response = obj.result]
              ELSE IF IsArr(obj.result) /\ ~bad /\ TextsOf(obj.result.a) # <<>>
              THEN [p1 EXCEPT !.response = Str(JoinNL(TextsOf(obj.result.a)))]
              ELSE p1
        p4 == IF IsNum(obj.num_turns)
              THEN [p2 EXCEPT !.numTurns = obj.num_turns] ELSE p2
    IN IF bad THEN p1 ELSE p4

\* the "result" branch of the data handler
OnResult(ps, obj) ==
    LET p1 == IF IsNum(obj.total_cost_usd)
              THEN [ps EXCEPT !.costUsd = obj.total_cost_usd] ELSE ps
        bad == IsArr(obj.result) /\ HasBadBlock(obj.result.a)
        p2 == IF IsStr(obj.result) /\ obj.result.v # <<>>
              THEN [p1 EXCEPT !.response = obj.result]
              ELSE IF IsArr(obj.result) /\ ~bad /\ TextsOf(obj.result.a) # <<>>
              THEN [p1 EXCEPT !.response = Str(JoinNL(TextsOf(obj.result.a)))]
              ELSE p1
        p3 == IF IsStr(obj.session_id)
              THEN [p2 EXCEPT !.sessionId = obj.session_id] ELSE p2
        p4 == IF IsNum(obj.num_turns)
              THEN [p3 EXCEPT !.numTurns = obj.num_turns] ELSE p3
    IN IF bad THEN p1 ELSE p4

\* one complete line of stdout
ProcessLine(ps, line) ==
    IF Trim(line) = <<>> THEN ps
    ELSE LET r == JsonParse(line) IN
         IF ~r.ok THEN ps
         ELSE IF r.o.t # "object" THEN ps
         ELSE LET p1 == IF r.o.type = "assistant" THEN OnAssistant(ps, r.o) ELSE ps
              IN IF r.o.type = "result" THEN OnResult(p1, r.o) ELSE p1

\* a loop that the first line that is not JSON ends
RECURSIVE ProcessLinesUntilNoise(_, _)
ProcessLinesUntilNoise(ps, lines) ==
    IF lines = <<>> THEN ps
    ELSE IF Trim(lines[1]) # <<>> /\ ~JsonParse(lines[1]).ok THEN ps
    ELSE ProcessLinesUntilNoise(ProcessLine(ps, lines[1]), Tail(lines))

RECURSIVE ProcessLines(_, _)
ProcessLines(ps, lines) ==
    IF lines = <<>> THEN ps
    ELSE ProcessLines(ProcessLine(ps, lines[1]), Tail(lines))

\* child.stdout.on("data"): append, split, keep the unterminated tail
OnData(ps, chunk) ==
    LET lines == SplitNL(ps.stdout \o Decode(chunk))
        n == Len(lines)
    IN [ProcessLines(ps, SubSeq(lines, 1, n-1)) EXCEPT !.stdout = lines[n]]

RECURSIVE FeedChunks(_, _)
FeedChunks(ps, chunks) ==
    IF chunks = <<>> THEN ps
    ELSE FeedChunks(OnData(ps, chunks[1]), Tail(chunks))


\* a close handler without the fallback to the assistant text
OnCloseNoFallback(ps, code) ==
    [exitCode |-> code, costUsd |-> ps.costUsd, response |-> ps.response,
     sessionId |-> ps.sessionId, inputTokens |-> ps.inputTokens,
     outputTokens |-> ps.outputTokens, numTurns |-> ps.numTurns]

\* a close handler that first parses what is left in the pending buffer
OnCloseFlushes(ps, code) ==
    LET fl == ProcessLine(ps, ps.stdout)
    IN [exitCode |-> code, costUsd |-> fl.costUsd,
        response |-> IF ~Truthy(fl.response) /\ fl.assistantText # <<>>
                     THEN Str(fl.assistantText) ELSE fl.response,
        sessionId |-> fl.sessionId, inputTokens |-> fl.inputTokens,
        outputTokens |-> fl.outputTokens, numTurns |-> fl.numTurns]

\* child.on("close"): fall back to the assistant text, resolve
OnClose(ps, code) ==
    [exitCode |-> code, costUsd |-> ps.costUsd,
     response |-> IF ~Truthy(ps.response) /\ ps.assistantText # <<>>
                  THEN Str(ps.assistantText) ELSE ps.response,
     sessionId |-> ps.sessionId, inputTokens |-> ps.inputTokens,
     outputTokens |-> ps.outputTokens, numTurns |-> ps.numTurns]

\* child.on("error"): resolve with what was captured and exitCode null
OnError(ps) ==
    [exitCode |-> JNull, costUsd |-> ps.costUsd, response |-> ps.response,
     sessionId |-> ps.sessionId, inputTokens |-> ps.inputTokens,
     outputTokens |-> ps.outputTokens, numTurns |-> ps.numTurns]


\* ------------------------------------------------------------------------
\* Texts.  A text is a sequence of runs [ch, n]: n characters of class ch.
\* "\n" is the newline, " " whitespace, "<@U>" a user mention (one unit),
\* any other class is ordinary text.
\* ------------------------------------------------------------------------
T(ch, n) == <<[ch |-> ch, n |-> n]>>

RECURSIVE TextLen(_)
TextLen(txt) == IF txt = <<>> THEN 0 ELSE txt[1].n + TextLen(Tail(txt))

SLACK_MAX_LENGTH == 3900
CONTEXT_WARN_TOKENS == 150000

IsSpaceRun(r) == r.ch = " " \/ r.ch = "\n"

\* String.prototype.trim() on a text
RECURSIVE TrimText(_)
TrimText(txt) ==
    IF txt = <<>> THEN txt
    ELSE IF IsSpaceRun(txt[1]) THEN TrimText(Tail(txt))
    ELSE IF IsSpaceRun(txt[Len(txt)]) THEN TrimText(SubSeq(txt, 1, Len(txt)-1))
    ELSE txt

\* text.replace(/<@[A-Z0-9]+>/g, "").trim()
stripMention(txt) ==
    TrimText(SelectSeq(txt, LAMBDA r : r.ch # "<@U>"))

\* buildUsageFooter: "\n\n---\n_model: ... | context: ... (..%)_" and the
\* warning line once the context reaches CONTEXT_WARN_TOKENS
buildUsageFooter(result) ==
    T("\n", 2)
    \o (IF result.inputTokens.t # "undefined" /\ result.inputTokens.t # "null"
        THEN T("footer:model|context", 40) ELSE T("footer:model", 20))
    \o (IF IsNum(result.inputTokens) /\ result.inputTokens.n >= CONTEXT_WARN_TOKENS
        THEN T("\n", 1) \o T("context getting full", 50) ELSE <<>>)

\* remaining.slice(0, k): the first k characters
RECURSIVE Take(_, _)
Take(txt, k) ==
    IF k <= 0 \/ txt = <<>> THEN <<>>
    ELSE IF txt[1].n <= k THEN <<txt[1]>> \o Take(Tail(txt), k - txt[1].n)
    ELSE <<[txt[1] EXCEPT !.n = k]>>

\* remaining.slice(k): all but the first k characters
RECURSIVE Drop(_, _)
Drop(txt, k) ==
    IF txt = <<>> THEN <<>>
    ELSE IF k <= 0 THEN txt
    ELSE IF txt[1].n <= k THEN Drop(Tail(txt), k - txt[1].n)
    ELSE <<[txt[1] EXCEPT !.n = @ - k]>> \o Tail(txt)

\* the character at 0-based index i
RECURSIVE CharAt(_, _)
CharAt(txt, i) ==
    IF txt = <<>> THEN ""
    ELSE IF i < txt[1].n THEN txt[1].ch
    ELSE CharAt(Tail(txt), i - txt[1].n)

Max(S) == CHOOSE x \in S : \A y \in S : y <= x

\* 0-based start offsets of the runs of a text
RECURSIVE Offsets(_, _)
Offsets(txt, from) ==
    IF txt = <<>> THEN <<>>
    ELSE <<from>> \o Offsets(Tail(txt), from + txt[1].n)

\* remaining.lastIndexOf(pat, from) for pat a run of w newlines (w = 1 or 2):
\* the largest index i <= from with newlines at i .. i+w-1, or -1.
\* Candidate indices lie in the newline runs and at their joints, from the
\* index before a run to its last index; the largest one of a run, if it
\* has any, is among the last three of these that are <= from.
lastIndexOfNL(txt, w, from) ==
    LET off == Offsets(txt, 0)
        top(r) == IF off[r] + txt[r].n - 1 <= from
                  THEN off[r] + txt[r].n - 1 ELSE from
        cand == UNION { { j \in (top(r) - 2)..top(r) :
                            /\ j >= 0 /\ j >= off[r] - 1
                            /\ \A d \in 0..(w-1) : CharAt(txt, j + d) = "\n" }
                        : r \in { q \in 1..Len(txt) : txt[q].ch = "\n" } }
    IN IF cand = {} THEN -1 ELSE Max(cand)

\* remaining.replace(/^\n+/, "")
RECURSIVE DropLeadingNL(_)
DropLeadingNL(txt) ==
    IF txt # <<>> /\ txt[1].ch = "\n" THEN DropLeadingNL(Tail(txt)) ELSE txt

RECURSIVE chunkLoop(_)
chunkLoop(remaining) ==
    IF TextLen(remaining) = 0 THEN <<>>
    ELSE IF TextLen(remaining) <= SLACK_MAX_LENGTH THEN <<remaining>>
    ELSE LET s1 == lastIndexOfNL(remaining, 2, SLACK_MAX_LENGTH)
             s2 == IF s1 <= 0 THEN lastIndexOfNL(remaining, 1, SLACK_MAX_LENGTH) ELSE s1
             splitAt == IF s2 <= 0 THEN SLACK_MAX_LENGTH ELSE s2
         IN <<Take(remaining, splitAt)>>
            \o chunkLoop(DropLeadingNL(Drop(remaining, splitAt)))

\* a chunkResponse that never splits
chunkResponseWhole(txt) == <<txt>>

\* chunkResponse(text)
chunkResponse(txt) ==
    IF TextLen(txt) <= SLACK_MAX_LENGTH THEN <<txt>> ELSE chunkLoop(txt)

\* ------------------------------------------------------------------------
\* State
\* ------------------------------------------------------------------------
Threads == {"T1", "T2"}
\* the threads that receive calls
Active == {"T1"}
Tok1 == Str(T("s1", 2))
Tok2 == Str(T("s2", 2))

VARIABLES
    booted,       \* restoreDiscussions has run
    discussions,  \* the registry Map: threadTs -> session reference, 0 = absent
    heap,         \* the ActiveDiscussion objects ever created, by reference
    db,           \* active_workflows: thread_ts -> row
    pend,         \* handler invocations suspended at their placeholder post
    children,     \* subprocesses ever spawned, each with its supervision state
    msgs,         \* the messages whose ts the controller holds, by ts
    out,          \* the outbound chat calls issued by the last step
    wire,         \* stream harness: the text a subprocess writes to stdout
    sent,         \* stream harness: how much of it the data handler has seen
    closure,      \* stream harness: the closure variables of the promise
    resolved,     \* stream harness: what the promise resolved to, if it has
    fullText,     \* delivery harness: the text handed to chunkResponse
    placeholderTs,\* delivery harness: thinkingTs, 0 when there is no placeholder
    chunkList,    \* delivery harness: what chunkResponse returned
    nextChunk,    \* delivery harness: the index i of the chunk to send next
    dpc,          \* delivery harness: "build", "send" or "done"
    workflows,    \* the registries of alert-workflow.ts and delay-alert-workflow.ts
    wheap,        \* the ActiveWorkflow / DelayAlertWorkflow objects, by reference
    procs,        \* the subprocesses spawned by spawnClaudeCli
    tasks,        \* workflow handlers suspended at an await
    alertCounters \* delay-alert-monitor.ts: alerts counted per dag

\* the stream harness feeds one subprocess's stdout to the data handler in
\* every possible chunking; it is idle in the lifecycle model
harness == <<wire, sent, closure, resolved>>

\* the delivery harness hands every text of a bounded set to chunkResponse
\* and sends the chunks as runDiscussCliWithHeartbeat does; it is idle in
\* the other models
chunker == <<fullText, placeholderTs, chunkList, nextChunk, dpc>>

ChunkerIdle ==
    /\ fullText = <<>>
    /\ placeholderTs = 0
    /\ chunkList = <<>>
    /\ nextChunk = 0
    /\ dpc = "done"

\* the alert and delay-alert workflows have their own model; they are idle
\* in the other models
Dags == {"dagA", "dagB"}
WorkflowKinds == {"alert", "delay_alert"}
alerting == <<workflows, wheap, procs, tasks, alertCounters>>

\* a row of alert_counters: its count, and whether window_expires_at has
\* passed; count 0 stands for no row
CounterRow(n, expired) == [count |-> n, expired |-> expired]
NoCounterRow == CounterRow(0, FALSE)
\* a dag without an entry in the alertCounters Map, without a window timer
\* and without a row
NoCounter == [count |-> 0, timer |-> FALSE, row |-> NoCounterRow]

AlertingIdle ==
    /\ workflows = [k \in WorkflowKinds |-> [t \in Threads |-> 0]]
    /\ wheap = <<>>
    /\ procs = <<>>
    /\ tasks = <<>>
    /\ alertCounters = [g \in Dags |-> NoCounter]

vars == <<booted, discussions, heap, db, pend, children, msgs, out,
          wire, sent, closure, resolved,
          fullText, placeholderTs, chunkList, nextChunk, dpc,
          workflows, wheap, procs, tasks, alertCounters>>

NoRow == [workflow_type |-> "none", cli_session_id |-> JNull]
Row(type, sid) == [workflow_type |-> type, cli_session_id |-> sid]

\* database.ts
insertWorkflow(tab, threadTs, type) ==
    [tab EXCEPT ![threadTs] = Row(type, JNull)]
updateWorkflowCliSession(tab, threadTs, sid) ==
    [tab EXCEPT ![threadTs] = IF @ = NoRow THEN @ ELSE [@ EXCEPT !.cli_session_id = sid]]
deleteWorkflow(tab, threadTs) ==
    [tab EXCEPT ![threadTs] = NoRow]
getWorkflowsByTypeAny(tab, type) ==
    { t \in DOMAIN tab : tab[t] # NoRow }
getWorkflowsByType(tab, type) ==
    { t \in DOMAIN tab : tab[t].workflow_type = type }

\* the fixed texts the controller sends
ThinkingText == T("Thinking...", 11)
HeartbeatText == T("Thinking... (elapsed)", 18)
StillThinkingText == T("Still thinking on your previous message", 54)
NoCliSessionText == T("No active CLI session", 73)
CompactingText == T("Compacting...", 13)
CantCompactText == T("Can't compact while still processing", 68)
NoCompactSessionText == T("No active session to compact", 29)
CompactFailedText == T("Compact failed", 71)
SessionEndedText == T("Session ended", 65)
TimeoutText == T("CLI session timed out", 63)
CliErrorText(code) ==
    IF code.t = "null" THEN T("CLI exited with error (code: null)", 62)
    ELSE IF code.n = 1 THEN T("CLI exited with error (code: 1)", 59)
    ELSE T("CLI exited with error (code: n)", 59)
NoResponseText == T("No response from Claude CLI.", 28)

\* an outbound chat.postMessage / chat.update call (ts: the message updated)
PostCall(t, txt) == [api |-> "post", thread |-> t, text |-> txt, ts |-> 0]
UpdateCall(t, txt, ts) == [api |-> "update", thread |-> t, text |-> txt, ts |-> ts]

\* chat.postMessage whose result the caller keeps: the ts of the new
\* message, 0 when the call fails (a call can succeed only while the model
\* has room for the message).  msgs holds the messages whose ts the
\* controller keeps; what a message says is what the last successful call
\* on it (recorded in out) wrote.
PostOutcomes == {0} \cup (IF Len(msgs) < MaxMsgs THEN {Len(msgs) + 1} ELSE {})
Posted(t, ts) ==
    IF ts = 0 THEN msgs ELSE Append(msgs, [thread |-> t])

\* user texts handed to start / reply
UserTexts == { <<>>, T("<@U>", 1), T("<@U>", 1) \o T(" ", 1) \o T("hello", 5) }

\* rows left in active_workflows by an earlier run of the process
InitRows == {NoRow, Row("discuss", JNull), Row("discuss", Tok1), Row("alert", JNull)}

Init ==
    /\ booted = FALSE
    /\ discussions = [t \in Threads |-> 0]
    /\ heap = <<>>
    /\ db \in [Threads -> InitRows]
    /\ \A t \in Threads \ Active : db[t] = NoRow
    /\ pend = <<>>
    /\ children = <<>>
    /\ msgs = <<>>
    /\ out = <<>>
    /\ wire = <<>>
    /\ sent = 0
    /\ closure = ParserInit
    /\ resolved = <<>>
    /\ ChunkerIdle
    /\ AlertingIdle

NewDiscussion(t, sid, processing) ==
    [channelId |-> "C", threadTs |-> t, cliSessionId |-> sid, cliChild |-> 0,
     isProcessing |-> processing, lastSeenTs |-> 0]

\* An ActiveDiscussion object that neither the registry, nor a suspended
\* handler, nor an unfinished turn refers to is unreachable: the runtime
\* frees it, and the model forgets its fields.
Freed == [channelId |-> "", threadTs |-> "", cliSessionId |-> JNull,
          cliChild |-> 0, isProcessing |-> FALSE, lastSeenTs |-> 0]
Reachable(d, reg, pd, chs) ==
    \/ \E t \in Threads : reg[t] = d
    \/ \E i \in 1..Len(pd) : pd[i].obj = d
    \/ \E c \in 1..Len(chs) : chs[c].pc # "finished" /\ chs[c].obj = d
Collect(h, reg, pd, chs) ==
    [d \in 1..Len(h) |-> IF Reachable(d, reg, pd, chs) THEN h[d] ELSE Freed]

\* restoreDiscussions(): one idle session per persisted row of type "discuss"
RECURSIVE RestoreRows(_, _, _)
RestoreRows(rows, h, reg) ==
    IF rows = {} THEN [heap |-> h, discussions |-> reg]
    ELSE LET t == CHOOSE x \in rows : TRUE
         IN RestoreRows(rows \ {t},
                        Append(h, NewDiscussion(t, db[t].cli_session_id, FALSE)),
                        [reg EXCEPT ![t] = Len(h) + 1])

restoreDiscussions ==
    /\ ~booted
    /\ LET r == RestoreRows(getWorkflowsByType(db, "discuss"), heap, discussions)
       IN /\ heap' = r.heap
          /\ discussions' = r.discussions
    /\ booted' = TRUE
    /\ out' = <<>>
    /\ UNCHANGED <<db, pend, children, msgs>>
    /\ UNCHANGED <<harness, chunker, alerting>>

\* ------------------------------------------------------------------------
\* Subprocesses.  os is the state of the operating-system process:
\* "running", "nolaunch" (spawn failed, its error event is still to come),
\* or "gone" (the close or error event has been handled).
\* ------------------------------------------------------------------------
NewChild(obj, t, kind, resume, prompt, thinkingTs, os) ==
    [obj |-> obj, thread |-> t, kind |-> kind,
     resumeArg |-> IF Truthy(resume) THEN resume ELSE Undef,
     prompt |-> prompt, os |-> os, signalled |-> FALSE,
     thinkingTs |-> thinkingTs, timedOut |-> FALSE,
     timeoutArmed |-> TRUE,
     hbArmed |-> (kind = "turn" /\ thinkingTs # 0),
     pc |-> "awaitDone", rest |-> <<>>,
     callTs |-> 0]

\* child.kill("SIGTERM"): delivered only to a process that still runs
Kill(ch, c) ==
    IF ch[c].os = "running" THEN [ch EXCEPT ![c].signalled = TRUE] ELSE ch

\* room for one more session object / subprocess in the model
RoomForSession == Len(heap) < MaxSessions
RoomForChild == Len(children) + Len(pend) < MaxChildren

\* discussions.has(messageTs)
hasNever(t) == FALSE
has(t) == discussions[t] # 0

\* discussion.isProcessing, the admission gate of reply and compact
isProcessingNever(d) == FALSE
isProcessing(d) == heap[d].isProcessing

\* startDiscussSession(app, channelId, messageTs, text)
startDiscussSession(t, text) ==
    /\ booted
    /\ IF has(t) \/ stripMention(text) = <<>>
       THEN /\ out' = <<>>
            /\ UNCHANGED <<booted, discussions, heap, db, pend, children, msgs>>
       ELSE /\ RoomForSession /\ RoomForChild
            /\ \E ts \in PostOutcomes :
                 /\ heap' = Append(heap, NewDiscussion(t, JNull, TRUE))
                 /\ discussions' = [discussions EXCEPT ![t] = Len(heap) + 1]
                 /\ db' = insertWorkflow(db, t, "discuss")
                 /\ msgs' = Posted(t, ts)
                 /\ pend' = Append(pend, [kind |-> "start", obj |-> Len(heap) + 1,
                                          thread |-> t, prompt |-> stripMention(text),
                                          thinkingTs |-> ts])
                 /\ out' = <<PostCall(t, ThinkingText)>>
            /\ UNCHANGED <<booted, children>>
    /\ UNCHANGED <<harness, chunker, alerting>>

\* a notice posted twice
NoticeTwice(t, txt) == out' = <<PostCall(t, txt), PostCall(t, txt)>>

\* a notice that is posted and whose result is ignored
Notice(t, txt) == out' = <<PostCall(t, txt)>>

\* a reply that does not look for a stored token
handleDiscussReplyNoTokenCheck(t, text) ==
    /\ booted
    /\ LET d == discussions[t] IN
       IF d = 0 \/ stripMention(text) = <<>>
       THEN /\ out' = <<>>
            /\ UNCHANGED <<booted, discussions, heap, db, pend, children, msgs>>
       ELSE IF isProcessing(d)
       THEN /\ Notice(t, StillThinkingText)
            /\ UNCHANGED <<booted, discussions, heap, db, pend, children, msgs>>
       ELSE /\ RoomForChild
            /\ \E ts \in PostOutcomes :
                 /\ heap' = [heap EXCEPT ![d].isProcessing = TRUE]
                 /\ msgs' = Posted(t, ts)
                 /\ pend' = Append(pend, [kind |-> "reply", obj |-> d,
                                          thread |-> t, prompt |-> stripMention(text),
                                          thinkingTs |-> ts])
                 /\ out' = <<PostCall(t, ThinkingText)>>
            /\ UNCHANGED <<booted, discussions, db, children>>
    /\ UNCHANGED <<harness, chunker, alerting>>

\* handleDiscussReply(app, threadTs, text)
handleDiscussReply(t, text) ==
    /\ booted
    /\ LET d == discussions[t] IN
       IF d = 0 \/ stripMention(text) = <<>>
       THEN /\ out' = <<>>
            /\ UNCHANGED <<booted, discussions, heap, db, pend, children, msgs>>
       ELSE IF isProcessing(d)
       THEN /\ Notice(t, StillThinkingText)
            /\ UNCHANGED <<booted, discussions, heap, db, pend, children, msgs>>
       ELSE IF ~Truthy(heap[d].cliSessionId)
       THEN /\ Notice(t, NoCliSessionText)
            /\ UNCHANGED <<booted, discussions, heap, db, pend, children, msgs>>
       ELSE /\ RoomForChild
            /\ \E ts \in PostOutcomes :
                 /\ heap' = [heap EXCEPT ![d].isProcessing = TRUE]
                 /\ msgs' = Posted(t, ts)
                 /\ pend' = Append(pend, [kind |-> "reply", obj |-> d,
                                          thread |-> t, prompt |-> stripMention(text),
                                          thinkingTs |-> ts])
                 /\ out' = <<PostCall(t, ThinkingText)>>
            /\ UNCHANGED <<booted, discussions, db, children>>
    /\ UNCHANGED <<harness, chunker, alerting>>

\* a compact that does not look for a stored token
handleDiscussCompactNoTokenCheck(t) ==
    /\ booted
    /\ LET d == discussions[t] IN
       IF d = 0
       THEN /\ out' = <<>>
            /\ UNCHANGED <<booted, discussions, heap, db, pend, children, msgs>>
       ELSE IF isProcessing(d)
       THEN /\ Notice(t, CantCompactText)
            /\ UNCHANGED <<booted, discussions, heap, db, pend, children, msgs>>
       ELSE /\ RoomForChild
            /\ \E ts \in PostOutcomes :
                 /\ heap' = [heap EXCEPT ![d].isProcessing = TRUE]
                 /\ msgs' = Posted(t, ts)
                 /\ pend' = Append(pend, [kind |-> "compact", obj |-> d,
                                          thread |-> t, prompt |-> <<>>,
                                          thinkingTs |-> ts])
                 /\ out' = <<PostCall(t, CompactingText)>>
            /\ UNCHANGED <<booted, discussions, db, children>>
    /\ UNCHANGED <<harness, chunker, alerting>>

\* handleDiscussCompact(app, threadTs), up to its placeholder post
handleDiscussCompact(t) ==
    /\ booted
    /\ LET d == discussions[t] IN
       IF d = 0
       THEN /\ out' = <<>>
            /\ UNCHANGED <<booted, discussions, heap, db, pend, children, msgs>>
       ELSE IF isProcessing(d)
       THEN /\ Notice(t, CantCompactText)
            /\ UNCHANGED <<booted, discussions, heap, db, pend, children, msgs>>
       ELSE IF ~Truthy(heap[d].cliSessionId)
       THEN /\ Notice(t, NoCompactSessionText)
            /\ UNCHANGED <<booted, discussions, heap, db, pend, children, msgs>>
       ELSE /\ RoomForChild
            /\ \E ts \in PostOutcomes :
                 /\ heap' = [heap EXCEPT ![d].isProcessing = TRUE]
                 /\ msgs' = Posted(t, ts)
                 /\ pend' = Append(pend, [kind |-> "compact", obj |-> d,
                                          thread |-> t, prompt |-> <<>>,
                                          thinkingTs |-> ts])
                 /\ out' = <<PostCall(t, CompactingText)>>
            /\ UNCHANGED <<booted, discussions, db, children>>
    /\ UNCHANGED <<harness, chunker, alerting>>

RemoveAt(q, i) == SubSeq(q, 1, i-1) \o SubSeq(q, i+1, Len(q))

\* a handler that a failed placeholder post ends: nothing is spawned
PlaceholderReturnOrThrow(i) ==
    /\ i \in 1..Len(pend)
    /\ LET p == pend[i]
           c == Len(children) + 1
           resume == IF p.kind = "start" THEN Undef ELSE heap[p.obj].cliSessionId
       IN IF p.thinkingTs = 0
          THEN UNCHANGED <<children, heap>>
          ELSE \E os \in {"running", "nolaunch"} :
            /\ children' = Append(children,
                  NewChild(p.obj, p.thread,
                           IF p.kind = "compact" THEN "compact" ELSE "turn",
                           resume, p.prompt, p.thinkingTs, os))
            /\ heap' = [heap EXCEPT ![p.obj].cliChild = c]
    /\ pend' = RemoveAt(pend, i)
    /\ out' = <<>>
    /\ UNCHANGED <<booted, discussions, db, msgs>>
    /\ UNCHANGED <<harness, chunker, alerting>>

\* a handler that spawns every subprocess without a resume token
PlaceholderReturnNoResume(i) ==
    /\ i \in 1..Len(pend)
    /\ LET p == pend[i]
           c == Len(children) + 1
       IN \E os \in {"running", "nolaunch"} :
            /\ children' = Append(children,
                  NewChild(p.obj, p.thread,
                           IF p.kind = "compact" THEN "compact" ELSE "turn",
                           Undef, p.prompt, p.thinkingTs, os))
            /\ heap' = [heap EXCEPT ![p.obj].cliChild = c]
    /\ pend' = RemoveAt(pend, i)
    /\ out' = <<>>
    /\ UNCHANGED <<booted, discussions, db, msgs>>
    /\ UNCHANGED <<harness, chunker, alerting>>

\* the placeholder post of a suspended start / reply / compact returns: the
\* handler spawns the subprocess and stores its handle in the session
\* (spawnDiscussCli with or without --resume, or compactCliSession)
PlaceholderReturn(i) ==
    /\ i \in 1..Len(pend)
    /\ LET p == pend[i]
           c == Len(children) + 1
           resume == IF p.kind = "start" THEN Undef ELSE heap[p.obj].cliSessionId
       IN \E os \in {"running", "nolaunch"} :
            /\ children' = Append(children,
                  NewChild(p.obj, p.thread,
                           IF p.kind = "compact" THEN "compact" ELSE "turn",
                           resume, p.prompt, p.thinkingTs, os))
            /\ heap' = [heap EXCEPT ![p.obj].cliChild = c]
    /\ pend' = RemoveAt(pend, i)
    /\ out' = <<>>
    /\ UNCHANGED <<booted, discussions, db, msgs>>
    /\ UNCHANGED <<harness, chunker, alerting>>

\* ------------------------------------------------------------------------
\* What a subprocess may do before it closes: the chunks it writes to stdout
\* and its exit code.  The runs cover: no output, with exit code 0, 1 and
\* null; a terminal record with a session id, split inside the line; a
\* response without a session id from a process that exits with 1; a
\* terminal record with no final newline; noise, then an assistant record
\* with a large context and a terminal record whose response is over the
\* length budget.
\* ------------------------------------------------------------------------
ResultRec(res, sid) == JObj("result", Undef, Undef, res, sid, Num(1), Num(1))
AssistantRec(txt, usage) ==
    JObj("assistant", usage, Arr(<<Block("text", Str(txt))>>),
         Undef, Undef, Undef, Undef)
Line(o) == <<OBJ(o), END, NL>>
Hi == Str(T("hi", 2))

Silent == <<>>
HiSplit == << <<OBJ(ResultRec(Hi, Tok2))>>, <<END, NL>> >>
HiNoToken == << Line(ResultRec(Hi, Undef)) >>
Unterminated == << <<OBJ(ResultRec(Hi, Tok1)), END>> >>
LongAnswer ==
    << <<X, NL>>,
       Line(AssistantRec(T("draft", 5), Usage(Num(150000), Undef, Undef, Undef)))
         \o Line(ResultRec(Str(T("long", 4000)), Tok1)) >>

Run(stream, code) == [stream |-> stream, code |-> code]
Runs ==
    { Run(Silent, Num(0)), Run(Silent, Num(1)), Run(Silent, JNull),
      Run(HiSplit, Num(0)), Run(HiNoToken, Num(1)),
      Run(Unterminated, Num(0)), Run(LongAnswer, Num(0)) }
Streams == { run.stream : run \in Runs }

\* exit codes a close event may carry: null when a signal ended the process
ExitCodes(signalled) ==
    {Num(0), Num(1)} \cup (IF signalled THEN {JNull} ELSE {})

\* the closure variables once the data handler has seen a whole stream
Parsed == [s \in Streams |-> FeedChunks(ParserInit, s)]

\* spawnDiscussCli's completion promise, resolved by the close event
DiscussResultOnClose(stream, code) == OnClose(Parsed[stream], code)
\* ... and by the error event of a failed launch
DiscussResultOnError == OnError(ParserInit)

\* a classification that looks at the response before the timeout flag
OutcomeResponseFirst(timedOut, result) ==
    IF Truthy(result.response) THEN "response"
    ELSE IF timedOut THEN "timeout"
    ELSE IF ~(IsNum(result.exitCode) /\ result.exitCode.n = 0) THEN "error"
    ELSE "response"

\* a classification in which any non-zero exit is an error
OutcomeErrorOnNonZero(timedOut, result) ==
    IF timedOut THEN "timeout"
    ELSE IF ~(IsNum(result.exitCode) /\ result.exitCode.n = 0) THEN "error"
    ELSE "response"

\* runDiscussCliWithHeartbeat: which of the three texts is delivered
Outcome(timedOut, result) ==
    IF timedOut THEN "timeout"
    ELSE IF ~(IsNum(result.exitCode) /\ result.exitCode.n = 0) /\ ~Truthy(result.response)
    THEN "error"
    ELSE "response"

\* a delivered text without the usage footer
FullTextNoFooter(timedOut, result) ==
    CASE Outcome(timedOut, result) = "timeout" -> TimeoutText
      [] Outcome(timedOut, result) = "error" -> CliErrorText(result.exitCode)
      [] OTHER -> (IF Truthy(result.response) THEN result.response.v ELSE NoResponseText)

\* runDiscussCliWithHeartbeat: the text to deliver for a resolved result
FullText(timedOut, result) ==
    CASE Outcome(timedOut, result) = "timeout" -> TimeoutText
      [] Outcome(timedOut, result) = "error" -> CliErrorText(result.exitCode)
      [] OTHER -> (IF Truthy(result.response) THEN result.response.v ELSE NoResponseText)
                  \o buildUsageFooter(result)

\* the results a turn's completion promise can resolve to
Results ==
    { DiscussResultOnClose(run.stream, run.code) : run \in Runs }
      \cup {DiscussResultOnError}

\* chunkResponse(fullText) for each timeout flag and result
DeliveredChunks ==
    [timedOut \in BOOLEAN, r \in Results |-> chunkResponse(FullText(timedOut, r))]

\* runDiscussCliWithHeartbeat after `await done`: clear the session's handle
\* and flag, store the token, build the text and send its first chunk
Finalize(c, result) ==
    LET ch == children[c]
        d == ch.obj
        chunks == DeliveredChunks[ch.timedOut, result]
        store == Truthy(result.sessionId)
    IN /\ heap' = [heap EXCEPT ![d].cliChild = 0,
                               ![d].isProcessing = FALSE,
                               ![d].cliSessionId = IF store THEN result.sessionId ELSE @]
       /\ db' = IF store
                THEN updateWorkflowCliSession(db, heap[d].threadTs, result.sessionId)
                ELSE db
       /\ IF ch.thinkingTs # 0
          THEN \E ok \in BOOLEAN :
                 /\ msgs' = msgs
                 /\ children' = [children EXCEPT ![c] =
                        [@ EXCEPT !.os = "gone", !.pc = "deliver",
                                  !.rest = Tail(chunks),
                                  !.callTs = IF ok THEN ch.thinkingTs ELSE 0]]
                 /\ out' = <<UpdateCall(ch.thread, chunks[1], ch.thinkingTs)>>
          ELSE \E ts \in PostOutcomes :
                 /\ msgs' = Posted(ch.thread, ts)
                 /\ children' = [children EXCEPT ![c] =
                        [@ EXCEPT !.os = "gone", !.pc = "deliver",
                                  !.rest = Tail(chunks), !.callTs = ts]]
                 /\ out' = <<PostCall(ch.thread, chunks[1])>>
       /\ UNCHANGED <<booted, discussions, pend>>

\* the subprocess of a turn closes with exit code `code` after writing `stream`
ChildCloseWith(c, code, stream) ==
    /\ c \in 1..Len(children)
    /\ children[c].kind = "turn" /\ children[c].os = "running"
    /\ code \in ExitCodes(children[c].signalled)
    /\ Finalize(c, DiscussResultOnClose(stream, code))
    /\ UNCHANGED <<harness, chunker, alerting>>

ChildClose(c) ==
    \E run \in Runs : ChildCloseWith(c, run.code, run.stream)

\* the subprocess of a turn failed to launch
ChildError(c) ==
    /\ c \in 1..Len(children)
    /\ children[c].kind = "turn" /\ children[c].os = "nolaunch"
    /\ Finalize(c, DiscussResultOnError)
    /\ UNCHANGED <<harness, chunker, alerting>>

\* the `finally` of runDiscussCliWithHeartbeat: both timers are cleared
\* (nothing of the turn is used afterwards)
Finished(ch) ==
    [NewChild(0, "", ch.kind, Undef, <<>>, 0, "gone")
       EXCEPT !.pc = "finished", !.timeoutArmed = FALSE, !.hbArmed = FALSE]


\* the pending update / post of a chunk returns: record lastSeenTs and send
\* the next chunk, or stop at a failed call; then release the timers.
\* rest holds the chunks still to be sent.
DeliverReturn(c) ==
    /\ c \in 1..Len(children)
    /\ children[c].pc = "deliver"
    /\ LET ch == children[c] IN
       IF ch.callTs = 0
       THEN /\ children' = [children EXCEPT ![c] = Finished(ch)]
            /\ out' = <<>>
            /\ msgs' = msgs
            /\ heap' = Collect(heap, discussions, pend, children')
       ELSE IF ch.rest # <<>>
       THEN \E ts \in PostOutcomes :
              /\ heap' = [heap EXCEPT ![ch.obj].lastSeenTs = ch.callTs]
              /\ msgs' = Posted(ch.thread, ts)
              /\ children' = [children EXCEPT ![c].rest = Tail(ch.rest),
                                              ![c].callTs = ts]
              /\ out' = <<PostCall(ch.thread, ch.rest[1])>>
       ELSE /\ children' = [children EXCEPT ![c] = Finished(ch)]
            /\ out' = <<>>
            /\ msgs' = msgs
            /\ heap' = Collect([heap EXCEPT ![ch.obj].lastSeenTs = ch.callTs],
                               discussions, pend, children')
    /\ UNCHANGED <<booted, discussions, db, pend>>
    /\ UNCHANGED <<harness, chunker, alerting>>

\* the heartbeat interval of a turn ticks
HeartbeatTick(c) ==
    /\ c \in 1..Len(children)
    /\ children[c].hbArmed /\ children[c].os # "nolaunch"
    /\ out' = <<UpdateCall(children[c].thread, HeartbeatText, children[c].thinkingTs)>>
    /\ UNCHANGED <<booted, discussions, heap, db, pend, children, msgs>>
    /\ UNCHANGED <<harness, chunker, alerting>>

\* a timeout timer that flags the turn and leaves the subprocess alone
TimeoutFireNoKill(c) ==
    /\ c \in 1..Len(children)
    /\ children[c].kind = "turn"
    /\ children[c].timeoutArmed /\ children[c].os # "nolaunch"
    /\ children' = [children EXCEPT ![c].timedOut = TRUE, ![c].timeoutArmed = FALSE]
    /\ out' = <<>>
    /\ UNCHANGED <<booted, discussions, heap, db, pend, msgs>>
    /\ UNCHANGED <<harness, chunker, alerting>>

\* the timeout timer of a turn fires
TimeoutFire(c) ==
    /\ c \in 1..Len(children)
    /\ children[c].kind = "turn"
    /\ children[c].timeoutArmed /\ children[c].os # "nolaunch"
    /\ children' = [Kill(children, c) EXCEPT
                      ![c].timedOut = TRUE, ![c].timeoutArmed = FALSE]
    /\ out' = <<>>
    /\ UNCHANGED <<booted, discussions, heap, db, pend, msgs>>
    /\ UNCHANGED <<harness, chunker, alerting>>

\* ------------------------------------------------------------------------
\* compactCliSession: the stream handler and completion promise
\* ------------------------------------------------------------------------
CompactInit == [inputTokens |-> Undef, costUsd |-> Undef, stdout |-> <<>>]

CompactLine(ps, line) ==
    IF Trim(line) = <<>> THEN ps
    ELSE LET r == JsonParse(line) IN
         IF ~r.ok \/ r.o.t # "object" THEN ps
         ELSE IF r.o.type = "assistant" /\ IsArr(r.o.content)
                 /\ HasBadBlock(r.o.content.a)
         THEN ps   \* logStreamContent throws before the usage is read
         ELSE LET u == r.o.usage
                  p1 == IF r.o.type = "assistant" /\ Truthy(u)
                        THEN [ps EXCEPT !.inputTokens =
                                 Num(NumOr0(UsageField(u, "input_tokens"))
                                     + NumOr0(UsageField(u, "cache_creation_input_tokens"))
                                     + NumOr0(UsageField(u, "cache_read_input_tokens")))]
                        ELSE ps
              IN IF r.o.type = "result" /\ IsNum(r.o.total_cost_usd)
                 THEN [p1 EXCEPT !.costUsd = r.o.total_cost_usd] ELSE p1

RECURSIVE CompactLines(_, _)
CompactLines(ps, lines) ==
    IF lines = <<>> THEN ps
    ELSE CompactLines(CompactLine(ps, lines[1]), Tail(lines))

CompactOnData(ps, chunk) ==
    LET lines == SplitNL(ps.stdout \o Decode(chunk))
        n == Len(lines)
    IN [CompactLines(ps, SubSeq(lines, 1, n-1)) EXCEPT !.stdout = lines[n]]

RECURSIVE CompactFeed(_, _)
CompactFeed(ps, chunks) ==
    IF chunks = <<>> THEN ps
    ELSE CompactFeed(CompactOnData(ps, chunks[1]), Tail(chunks))

CompactParsed == [s \in Streams |-> CompactFeed(CompactInit, s)]
CompactResultOnClose(stream, code) ==
    LET ps == CompactParsed[stream]
    IN [success |-> (IsNum(code) /\ code.n = 0),
        inputTokens |-> ps.inputTokens, costUsd |-> ps.costUsd]
CompactResultOnError ==
    [success |-> FALSE, inputTokens |-> Undef, costUsd |-> Undef]

\* handleDiscussCompact: the message reporting the outcome
CompactMessage(result) ==
    IF result.success
    THEN T("Session compacted.", 18)
         \o (IF result.inputTokens.t # "undefined" THEN T(" | Context now", 25) ELSE <<>>)
         \o (IF result.costUsd.t # "undefined" THEN T(" | Cost", 16) ELSE <<>>)
    ELSE CompactFailedText

\* a compact that drops the stored token when it fails
CompactFinalizeForgetsToken(c, result) ==
    LET ch == children[c]
        d == ch.obj
        m == CompactMessage(result)
    IN /\ children' = [children EXCEPT ![c] = Finished(ch)]
       /\ heap' = Collect([heap EXCEPT ![d].cliChild = 0, ![d].isProcessing = FALSE,
                                       ![d].cliSessionId =
                                           IF result.success THEN @ ELSE JNull],
                          discussions, pend, children')
       /\ out' = IF ch.thinkingTs # 0
                 THEN <<UpdateCall(ch.thread, m, ch.thinkingTs)>>
                 ELSE <<PostCall(ch.thread, m)>>
       /\ UNCHANGED <<booted, discussions, db, pend, msgs>>

\* a compact whose finalization leaves the session flagged as processing
CompactFinalizeKeepsFlag(c, result) ==
    LET ch == children[c]
        d == ch.obj
        m == CompactMessage(result)
    IN /\ children' = [children EXCEPT ![c] = Finished(ch)]
       /\ heap' = Collect([heap EXCEPT ![d].cliChild = 0],
                          discussions, pend, children')
       /\ out' = IF ch.thinkingTs # 0
                 THEN <<UpdateCall(ch.thread, m, ch.thinkingTs)>>
                 ELSE <<PostCall(ch.thread, m)>>
       /\ UNCHANGED <<booted, discussions, db, pend, msgs>>

\* handleDiscussCompact after `await done`: clear the handle and the flag,
\* report by updating the placeholder or posting
CompactFinalize(c, result) ==
    LET ch == children[c]
        d == ch.obj
        m == CompactMessage(result)
    IN /\ children' = [children EXCEPT ![c] = Finished(ch)]
       /\ heap' = Collect([heap EXCEPT ![d].cliChild = 0, ![d].isProcessing = FALSE],
                          discussions, pend, children')
       /\ out' = IF ch.thinkingTs # 0
                 THEN <<UpdateCall(ch.thread, m, ch.thinkingTs)>>
                 ELSE <<PostCall(ch.thread, m)>>
       /\ UNCHANGED <<booted, discussions, db, pend, msgs>>

CompactCloseWith(c, code, stream) ==
    /\ c \in 1..Len(children)
    /\ children[c].kind = "compact" /\ children[c].os = "running"
    /\ code \in ExitCodes(children[c].signalled)
    /\ CompactFinalize(c, CompactResultOnClose(stream, code))
    /\ UNCHANGED <<harness, chunker, alerting>>

CompactClose(c) ==
    \E run \in Runs : CompactCloseWith(c, run.code, run.stream)

CompactError(c) ==
    /\ c \in 1..Len(children)
    /\ children[c].kind = "compact" /\ children[c].os = "nolaunch"
    /\ CompactFinalize(c, CompactResultOnError)
    /\ UNCHANGED <<harness, chunker, alerting>>

\* a safety timer that fires and leaves the subprocess alone
CompactSafetyTimeoutNoKill(c) ==
    /\ c \in 1..Len(children)
    /\ children[c].kind = "compact"
    /\ children[c].timeoutArmed /\ children[c].os # "nolaunch"
    /\ children' = [children EXCEPT ![c].timeoutArmed = FALSE]
    /\ out' = <<>>
    /\ UNCHANGED <<booted, discussions, heap, db, pend, msgs>>
    /\ UNCHANGED <<harness, chunker, alerting>>

\* the 120 s safety timer of a compact fires: safeKill(child)
CompactSafetyTimeout(c) ==
    /\ c \in 1..Len(children)
    /\ children[c].kind = "compact"
    /\ children[c].timeoutArmed /\ children[c].os # "nolaunch"
    /\ children' = [Kill(children, c) EXCEPT ![c].timeoutArmed = FALSE]
    /\ out' = <<>>
    /\ UNCHANGED <<booted, discussions, heap, db, pend, msgs>>
    /\ UNCHANGED <<harness, chunker, alerting>>

\* ------------------------------------------------------------------------
\* Removal
\* ------------------------------------------------------------------------
\* a removal that leaves the subprocess alone
RemovedNoKill(t) ==
    LET d == discussions[t] IN
    /\ children' = children
    /\ discussions' = [discussions EXCEPT ![t] = 0]
    /\ heap' = Collect([heap EXCEPT ![d].cliChild = 0], discussions', pend, children')
    /\ db' = deleteWorkflow(db, t)

\* kill the session's live handle, null it, drop the session and its row
Removed(t) ==
    LET d == discussions[t] IN
    /\ children' = IF heap[d].cliChild # 0 THEN Kill(children, heap[d].cliChild)
                   ELSE children
    /\ discussions' = [discussions EXCEPT ![t] = 0]
    /\ heap' = Collect([heap EXCEPT ![d].cliChild = 0], discussions', pend, children')
    /\ db' = deleteWorkflow(db, t)

\* an exit that posts its closing notice whether or not a session is there
handleDiscussExitAlwaysNotice(t) ==
    /\ booted
    /\ Notice(t, SessionEndedText)
    /\ IF discussions[t] = 0
       THEN UNCHANGED <<booted, discussions, heap, db, pend, children, msgs>>
       ELSE /\ Removed(t)
            /\ UNCHANGED <<booted, pend, msgs>>
    /\ UNCHANGED <<harness, chunker, alerting>>

\* handleDiscussExit(app, threadTs)
handleDiscussExit(t) ==
    /\ booted
    /\ IF discussions[t] = 0
       THEN /\ out' = <<>>
            /\ UNCHANGED <<booted, discussions, heap, db, pend, children, msgs>>
       ELSE /\ Removed(t)
            /\ Notice(t, SessionEndedText)
            /\ UNCHANGED <<booted, pend, msgs>>
    /\ UNCHANGED <<harness, chunker, alerting>>

\* killDiscussSession(threadTs)
killDiscussSession(t) ==
    /\ booted
    /\ out' = <<>>
    /\ IF discussions[t] = 0
       THEN UNCHANGED <<booted, discussions, heap, db, pend, children, msgs>>
       ELSE /\ Removed(t)
            /\ UNCHANGED <<booted, pend, msgs>>
    /\ UNCHANGED <<harness, chunker, alerting>>

\* killAllDiscussWorkflows(): for each entry of the registry, kill and null
\* its live handle, delete its row, delete the entry.  The kill is a bare
\* child.kill("SIGTERM"): when it throws, the exception leaves the loop, the
\* entries already visited (before) are gone, and the failing entry and the
\* ones after it stay as they were.
killAllDiscussWorkflows ==
    /\ booted
    /\ \E t \in Threads : discussions[t] # 0
    /\ LET reg == { t \in Threads : discussions[t] # 0 }
           live == { t \in reg : heap[discussions[t]].cliChild # 0 }
       IN \E failing \in SUBSET live, before \in SUBSET reg :
            /\ Cardinality(failing) <= 1
            /\ IF failing = {} THEN before = reg ELSE before \cap failing = {}
            /\ LET handles == { heap[discussions[t]].cliChild : t \in before } \ {0}
               IN children' = [c \in 1..Len(children) |->
                                  IF c \in handles /\ children[c].os = "running"
                                  THEN [children[c] EXCEPT !.signalled = TRUE]
                                  ELSE children[c]]
            /\ discussions' = [t \in Threads |->
                                  IF t \in before THEN 0 ELSE discussions[t]]
            /\ heap' = Collect([d \in 1..Len(heap) |->
                                   IF \E t \in before : discussions[t] = d
                                   THEN [heap[d] EXCEPT !.cliChild = 0] ELSE heap[d]],
                               discussions', pend, children')
            /\ db' = [t \in Threads |-> IF t \in before THEN NoRow ELSE db[t]]
    /\ out' = <<>>
    /\ UNCHANGED <<booted, pend, msgs>>
    /\ UNCHANGED <<harness, chunker, alerting>>

Next ==
    \/ restoreDiscussions
    \/ \E t \in Active, text \in UserTexts : startDiscussSession(t, text)
    \/ \E t \in Active, text \in UserTexts : handleDiscussReply(t, text)
    \/ \E t \in Active : handleDiscussCompact(t)
    \/ \E i \in 1..MaxChildren : PlaceholderReturn(i)
    \/ \E c \in 1..MaxChildren : ChildClose(c)
    \/ \E c \in 1..MaxChildren : ChildError(c)
    \/ \E c \in 1..MaxChildren : DeliverReturn(c)
    \/ \E c \in 1..MaxChildren : HeartbeatTick(c)
    \/ \E c \in 1..MaxChildren : TimeoutFire(c)
    \/ \E c \in 1..MaxChildren : CompactClose(c)
    \/ \E c \in 1..MaxChildren : CompactError(c)
    \/ \E c \in 1..MaxChildren : CompactSafetyTimeout(c)
    \/ \E t \in Active : handleDiscussExit(t)
    \/ \E t \in Active : killDiscussSession(t)
    \/ killAllDiscussWorkflows

Spec == Init /\ [][Next]_vars

\* What the event loop and the operating system guarantee: a pending chat
\* call returns; a failed launch reports its error; an armed timer fires; a
\* subprocess that was sent SIGTERM closes.  A subprocess that was not
\* signalled may run for ever.
Fairness ==
    /\ \A i \in 1..MaxChildren : WF_vars(PlaceholderReturn(i))
    /\ \A c \in 1..MaxChildren :
         /\ WF_vars(ChildError(c))
         /\ WF_vars(TimeoutFire(c))
         /\ WF_vars(ChildClose(c) /\ children[c].signalled)
         /\ WF_vars(DeliverReturn(c))
         /\ WF_vars(CompactError(c))
         /\ WF_vars(CompactSafetyTimeout(c))
         /\ WF_vars(CompactClose(c) /\ children[c].signalled)

LiveSpec == Init /\ [][Next]_vars /\ Fairness

\* ------------------------------------------------------------------------
\* Stream harness: the stdout of one subprocess of spawnDiscussCli, made of
\* up to MaxLines lines, delivered to the data handler in every chunking, and
\* then the close event.
\* ------------------------------------------------------------------------
MaxLines == 3

UsageA == Usage(Num(100), Num(20), Num(5), Num(7))
UsageB == Usage(Num(50), Num(0), Num(200), Undef)
UsageC == Usage(Num(9), Undef, Undef, Undef)

\* the lines a subprocess may write (without their newline): diagnostic
\* text, whitespace, three assistant records with a usage, one without, a
\* terminal record, a JSON text that is cut short, and a terminal record
\* whose result string holds a character of two bytes
LineKinds ==
    { <<X>>,
      <<OBJ(ResultRec(Str(T("caf", 3) \o T("e-acute", 1)), Tok1)), HI, LO, END>>,
      <<SP>>,
      <<OBJ(AssistantRec(T("draft", 5), UsageA)), END>>,
      <<OBJ(JObj("assistant", UsageB, Undef, Undef, Undef, Undef, Undef)), END>>,
      <<OBJ(AssistantRec(T("more", 4), UsageC)), END, SP>>,
      <<SP, OBJ(AssistantRec(T("alt", 3), Undef)), END>>,
      <<OBJ(ResultRec(Hi, Tok2)), END>>,
      <<OBJ(ResultRec(Hi, Tok1))>> }

RECURSIVE JoinLines(_)
JoinLines(ls) ==
    IF ls = <<>> THEN <<>> ELSE ls[1] \o <<NL>> \o JoinLines(Tail(ls))

\* every line newline-terminated, or the last one not
WireTexts ==
    LET seqs == UNION { [1..n -> LineKinds] : n \in 0..MaxLines }
    IN { JoinLines(ls) : ls \in seqs }
         \cup { SubSeq(JoinLines(ls), 1, Len(JoinLines(ls)) - 1) :
                  ls \in seqs \ {<<>>} }

lifecycle == <<booted, discussions, heap, db, pend, children, msgs, out>>

HarnessInit ==
    /\ booted = FALSE
    /\ discussions = [t \in Threads |-> 0]
    /\ heap = <<>>
    /\ db = [t \in Threads |-> NoRow]
    /\ pend = <<>>
    /\ children = <<>>
    /\ msgs = <<>>
    /\ out = <<>>
    /\ wire \in WireTexts
    /\ sent = 0
    /\ closure = ParserInit
    /\ resolved = <<>>
    /\ ChunkerIdle
    /\ AlertingIdle

\* child.stdout.on("data"): the next k characters arrive as one chunk
StdoutData(k) ==
    /\ resolved = <<>>
    /\ k \in 1..(Len(wire) - sent)
    /\ closure' = OnData(closure, SubSeq(wire, sent + 1, sent + k))
    /\ sent' = sent + k
    /\ UNCHANGED <<wire, resolved>>
    /\ UNCHANGED <<lifecycle, chunker, alerting>>

\* child.on("close"): all of stdout has been delivered
StdoutClose(code) ==
    /\ resolved = <<>>
    /\ sent = Len(wire)
    /\ resolved' = <<OnClose(closure, code)>>
    /\ UNCHANGED <<wire, sent, closure>>
    /\ UNCHANGED <<lifecycle, chunker, alerting>>

\* no chunk is longer than the longest text
MaxChunk == 5 * MaxLines

HarnessNext ==
    \/ \E k \in 1..MaxChunk : StdoutData(k)
    \/ \E code \in {Num(0), Num(1), JNull} : StdoutClose(code)

StreamSpec == HarnessInit /\ [][HarnessNext]_vars

\* ------------------------------------------------------------------------
\* Response extraction: streams of records whose result field is a string,
\* an empty string, an array with and without text blocks, or missing, and
\* of assistant records with several, one or no text block; a stream ends
\* its turn with one result record at most
\* ------------------------------------------------------------------------
TextBlock(ch) == Block("text", Str(T(ch, 1)))
ToolUse == Block("tool_use", Undef)

ResponseKinds ==
    { <<OBJ(ResultRec(Hi, Tok1)), END>>,
      <<OBJ(ResultRec(Str(<<>>), Tok1)), END>>,
      <<OBJ(ResultRec(Arr(<<TextBlock("a"), ToolUse, TextBlock("b")>>), Tok1)), END>>,
      <<OBJ(ResultRec(Arr(<<ToolUse, Block("text", Num(1))>>), Tok1)), END>>,
      <<OBJ(ResultRec(Undef, Tok1)), END>>,
      <<OBJ(JObj("assistant", Undef, Arr(<<TextBlock("x"), ToolUse, TextBlock("y")>>),
                 Undef, Undef, Undef, Undef)), END>>,
      <<OBJ(JObj("assistant", UsageA, Arr(<<ToolUse>>),
                 Undef, Undef, Undef, Undef)), END>>,
      <<OBJ(AssistantRec(T("draft", 5), Undef)), END>>,
      <<X>> }

IsResultLine(line) == line[1].c = "obj" /\ line[1].o.type = "result"

ResponseWires ==
    LET seqs == UNION { [1..n -> ResponseKinds] : n \in 0..MaxLines }
    IN { JoinLines(ls) : ls \in { q \in seqs :
            Cardinality({ i \in 1..Len(q) : IsResultLine(q[i]) }) <= 1 } }

ExtractInit ==
    /\ booted = FALSE
    /\ discussions = [t \in Threads |-> 0]
    /\ heap = <<>>
    /\ db = [t \in Threads |-> NoRow]
    /\ pend = <<>>
    /\ children = <<>>
    /\ msgs = <<>>
    /\ out = <<>>
    /\ wire \in ResponseWires
    /\ sent = 0
    /\ closure = ParserInit
    /\ resolved = <<>>
    /\ ChunkerIdle
    /\ AlertingIdle

ExtractSpec == ExtractInit /\ [][HarnessNext]_vars

\* ------------------------------------------------------------------------
\* Delivery: every text of up to MaxRuns runs of letters and newlines, of
\* lengths around the budget, handed to chunkResponse and sent chunk by
\* chunk (runDiscussCliWithHeartbeat, the try block after the text is built)
\* ------------------------------------------------------------------------
MaxRuns == 3

RunLengths == {1, 2, SLACK_MAX_LENGTH - 1, SLACK_MAX_LENGTH, SLACK_MAX_LENGTH + 1}
TextRuns == { [ch |-> c, n |-> n] : c \in {"a", "b", "\n"}, n \in RunLengths }

\* the non-empty texts: fullText always holds a notice or a footer
ChunkTexts ==
    { t \in UNION { [1..k -> TextRuns] : k \in 1..MaxRuns } :
        \A i \in 1..(Len(t) - 1) : t[i].ch # t[i+1].ch }

ChunkInit ==
    /\ booted = FALSE
    /\ discussions = [t \in Threads |-> 0]
    /\ heap = <<>>
    /\ db = [t \in Threads |-> NoRow]
    /\ pend = <<>>
    /\ children = <<>>
    /\ msgs = <<>>
    /\ out = <<>>
    /\ wire = <<>>
    /\ sent = 0
    /\ closure = ParserInit
    /\ resolved = <<>>
    /\ fullText \in ChunkTexts
    /\ placeholderTs \in {0, 1}
    /\ chunkList = <<>>
    /\ nextChunk = 1
    /\ dpc = "build"
    /\ AlertingIdle

DeliveryIdle ==
    UNCHANGED <<booted, discussions, heap, db, pend, children, msgs, harness,
                alerting>>

\* chunkResponse(fullText), then the first chunk: an update of the
\* placeholder, or a post when there is none; a call that fails ends the
\* delivery (the catch of the try block)
SendFirst ==
    /\ dpc = "build"
    /\ chunkList' = chunkResponse(fullText)
    /\ out' = IF placeholderTs # 0
              THEN <<UpdateCall("T1", chunkList'[1], placeholderTs)>>
              ELSE <<PostCall("T1", chunkList'[1])>>
    /\ nextChunk' = 2
    /\ \E ok \in BOOLEAN : dpc' = IF ok THEN "send" ELSE "done"
    /\ UNCHANGED <<fullText, placeholderTs>>
    /\ DeliveryIdle

\* for (let i = 1; i < chunks.length; i++): post chunks[i] in the thread
SendNext ==
    /\ dpc = "send"
    /\ nextChunk <= Len(chunkList)
    /\ out' = <<PostCall("T1", chunkList[nextChunk])>>
    /\ nextChunk' = nextChunk + 1
    /\ \E ok \in BOOLEAN : dpc' = IF ok THEN "send" ELSE "done"
    /\ UNCHANGED <<fullText, placeholderTs, chunkList>>
    /\ DeliveryIdle

\* the loop ends
SendDone ==
    /\ dpc = "send"
    /\ nextChunk > Len(chunkList)
    /\ dpc' = "done"
    /\ out' = <<>>
    /\ UNCHANGED <<fullText, placeholderTs, chunkList, nextChunk>>
    /\ DeliveryIdle

ChunkNext == SendFirst \/ SendNext \/ SendDone

ChunkSpec == ChunkInit /\ [][ChunkNext]_vars

\* ------------------------------------------------------------------------
\* Alert and delay-alert workflows (alert-workflow.ts, delay-alert-workflow.ts,
\* delay-alert-monitor.ts, the HTTP triggers of server.ts).  A workflow is
\* keyed by the ts of the message that started it; its subprocesses are
\* single-turn runs of spawnClaudeCli.
\* ------------------------------------------------------------------------
MaxWorkflows == 2
MaxProcs == 2

\* config.delayAlertThreshold
DelayAlertThreshold == 2

CompleteVpnText == T("Investigation complete. VPN disconnected.", 41)
CompleteText == T("Investigation complete.", 23)

\* the text of an owner's reply
FeedbackTexts == { T("why", 3) }

NewWorkflow(k, t, dag) ==
    [kind |-> k, threadTs |-> t, dagName |-> dag, cliChild |-> 0,
     feedbackTimer |-> FALSE]

\* spawnClaudeCli(prompt, cwd): the subprocess and its completion promise.
\* Neither spawnClaudeCli nor its callers set a timer on the subprocess.
NewProc(w, purpose, text) ==
    [wf |-> w, purpose |-> purpose, text |-> text, os |-> "running",
     signalled |-> FALSE, timeoutArmed |-> FALSE]

\* a subprocess whose completion has been delivered
GoneProc ==
    [wf |-> 0, purpose |-> "", text |-> <<>>, os |-> "gone",
     signalled |-> FALSE, timeoutArmed |-> FALSE]

\* a handler suspended at an await: "ack" (acknowledgePagerDutyIncident),
\* "history" (conversations.history of a trigger), "post" (the completion
\* notice of a cleanup)
Task(kind, k, t, w) == [kind |-> kind, wkind |-> k, thread |-> t, wf |-> w]

AlertIdle ==
    UNCHANGED <<discussions, heap, pend, children, msgs, harness, chunker>>

\* room in the model for one more workflow object / subprocess / fetch
RoomForWorkflow == Len(wheap) < MaxWorkflows
Awaiting(kind) == { i \in 1..Len(tasks) : tasks[i].kind = kind }
RoomForProc == Len(procs) + Cardinality(Awaiting("ack")) < MaxProcs
RoomForFetch == Awaiting("history") = {}

\* clearFeedbackTimer(workflow)
clearFeedbackTimer(w) == [w EXCEPT !.feedbackTimer = FALSE]

\* startFeedbackTimer(app, workflow): clear, then arm
startFeedbackTimer(w) == [clearFeedbackTimer(w) EXCEPT !.feedbackTimer = TRUE]

\* if (workflow.cliChild) { workflow.cliChild.kill("SIGTERM"); ... = null }
KillChild(w) ==
    IF wheap[w].cliChild # 0 THEN Kill(procs, wheap[w].cliChild) ELSE procs

\* isWorkflowActiveForDag(dagName)
isWorkflowActiveForDag(dag) ==
    \E t \in Threads :
        /\ workflows["delay_alert"][t] # 0
        /\ wheap[workflows["delay_alert"][t]].dagName = dag

\* restoreAlertWorkflows(app): one workflow per persisted row of type
\* "alert", its feedback timer armed
RECURSIVE RestoreAlertRows(_, _, _)
RestoreAlertRows(rows, h, reg) ==
    IF rows = {} THEN [wheap |-> h, reg |-> reg]
    ELSE LET t == CHOOSE x \in rows : TRUE
         IN RestoreAlertRows(rows \ {t},
                             Append(h, startFeedbackTimer(NewWorkflow("alert", t, ""))),
                             [reg EXCEPT ![t] = Len(h) + 1])

restoreAlertWorkflows ==
    /\ ~booted
    /\ LET r == RestoreAlertRows(getWorkflowsByType(db, "alert"), wheap,
                                 workflows["alert"])
       IN /\ wheap' = r.wheap
          /\ workflows' = [workflows EXCEPT !["alert"] = r.reg]
    /\ booted' = TRUE
    /\ out' = <<>>
    /\ UNCHANGED <<db, procs, tasks, alertCounters>>
    /\ AlertIdle

\* startAlertWorkflow / startDelayAlertWorkflow, called with the handlers
\* still suspended in `base`: return when the message has a workflow; else
\* register a new one (an alert also in active_workflows), then spawn the
\* investigation, for an alert with a PagerDuty incident after the
\* acknowledgement has been awaited
Started(k, t, dag, incident, base) ==
    IF workflows[k][t] # 0
    THEN /\ tasks' = base
         /\ UNCHANGED <<workflows, wheap, procs, db>>
    ELSE /\ RoomForWorkflow
         /\ LET w == Len(wheap) + 1 IN
            /\ workflows' = [workflows EXCEPT ![k][t] = w]
            /\ db' = IF k = "alert" THEN insertWorkflow(db, t, "alert") ELSE db
            /\ IF k = "alert" /\ incident
               THEN /\ wheap' = Append(wheap, NewWorkflow(k, t, dag))
                    /\ tasks' = Append(base, Task("ack", k, t, w))
                    /\ procs' = procs
               ELSE /\ wheap' = Append(wheap, [NewWorkflow(k, t, dag) EXCEPT
                                                  !.cliChild = Len(procs) + 1])
                    /\ procs' = Append(procs, NewProc(w, "investigate", <<>>))
                    /\ tasks' = base

\* the alert monitor sees a top-level PagerDuty message
startAlertWorkflow(t, incident) ==
    /\ booted
    /\ RoomForProc
    /\ Started("alert", t, "", incident, tasks)
    /\ out' = <<>>
    /\ UNCHANGED <<booted, alertCounters>>
    /\ AlertIdle

\* acknowledgePagerDutyIncident returns: spawn the investigation
AckReturn(i) ==
    /\ i \in 1..Len(tasks)
    /\ tasks[i].kind = "ack"
    /\ procs' = Append(procs, NewProc(tasks[i].wf, "investigate", <<>>))
    /\ wheap' = [wheap EXCEPT ![tasks[i].wf].cliChild = Len(procs) + 1]
    /\ tasks' = RemoveAt(tasks, i)
    /\ out' = <<>>
    /\ UNCHANGED <<booted, db, workflows, alertCounters>>
    /\ AlertIdle

\* upsertAlertCounter(dagName, count, firstSeenAt, firstSeenAt + window):
\* the row written while the window runs
upsertAlertCounter(c, n) == [c EXCEPT !.row = CounterRow(n, FALSE)]

\* a monitor that leaves the row of a counter it resets
keepAlertCounter(c) == c

\* deleteAlertCounter(dagName)
deleteAlertCounter(c) == [c EXCEPT !.row = NoCounterRow]

\* restoreAlertCounters(): a row whose window has passed is deleted, any
\* other row becomes a counter with a timer for the rest of its window
restoreAlertCounters ==
    /\ ~booted
    /\ alertCounters' =
          [g \in Dags |->
              LET c == alertCounters[g] IN
              IF c.row.count = 0 THEN c
              ELSE IF c.row.expired THEN deleteAlertCounter(c)
              ELSE [c EXCEPT !.count = c.row.count, !.timer = TRUE]]
    /\ booted' = TRUE
    /\ out' = <<>>
    /\ UNCHANGED <<db, workflows, wheap, procs, tasks>>
    /\ AlertIdle

\* registerDelayAlertMonitor: a top-level Airflow alert for `dag` whose task
\* matches the patterns.  The count only matters up to the threshold.
MonitorDelayAlert(t, dag) ==
    /\ booted
    /\ RoomForProc
    /\ LET c == alertCounters[dag]
           counter == IF c.count = 0 THEN [c EXCEPT !.timer = TRUE] ELSE c
           n == IF c.count < DelayAlertThreshold THEN c.count + 1 ELSE c.count
           counted == upsertAlertCounter([counter EXCEPT !.count = n], n)
       IN IF n >= DelayAlertThreshold /\ ~isWorkflowActiveForDag(dag)
          THEN /\ alertCounters' =
                     [alertCounters EXCEPT ![dag] =
                         deleteAlertCounter([counted EXCEPT !.timer = FALSE,
                                                            !.count = 0])]
               /\ Started("delay_alert", t, dag, FALSE, tasks)
          ELSE /\ alertCounters' = [alertCounters EXCEPT ![dag] = counted]
               /\ UNCHANGED <<workflows, wheap, procs, tasks, db>>
    /\ out' = <<>>
    /\ UNCHANGED booted
    /\ AlertIdle

\* the window timer of a counter expires
WindowExpired(dag) ==
    /\ alertCounters[dag].timer
    /\ alertCounters' =
          [alertCounters EXCEPT ![dag] =
              deleteAlertCounter([@ EXCEPT !.timer = FALSE, !.count = 0])]
    /\ out' = <<>>
    /\ UNCHANGED <<booted, db, workflows, wheap, procs, tasks>>
    /\ AlertIdle

\* handleTriggerAlert / handleTriggerDelayAlert: 409 when the message has a
\* workflow, else fetch the message
Trigger(k, t) ==
    /\ IF workflows[k][t] # 0
       THEN tasks' = tasks
       ELSE /\ RoomForProc
            /\ RoomForFetch
            /\ tasks' = Append(tasks, Task("history", k, t, 0))
    /\ out' = <<>>
    /\ UNCHANGED <<booted, db, workflows, wheap, procs, alertCounters>>
    /\ AlertIdle

handleTriggerAlert(t) ==
    /\ booted
    /\ Trigger("alert", t)

handleTriggerDelayAlert(t) ==
    /\ booted
    /\ Trigger("delay_alert", t)

\* conversations.history returns: 500 when it failed, 400 when a delay
\* alert's text names no dag (found = ""), else start the workflow
HistoryReturn(i) ==
    /\ i \in 1..Len(tasks)
    /\ tasks[i].kind = "history"
    /\ \E ok \in BOOLEAN, found \in Dags \cup {""}, incident \in BOOLEAN :
         IF ~ok \/ (tasks[i].wkind = "delay_alert" /\ found = "")
         THEN /\ tasks' = RemoveAt(tasks, i)
              /\ UNCHANGED <<workflows, wheap, procs, db>>
         ELSE Started(tasks[i].wkind, tasks[i].thread,
                      IF tasks[i].wkind = "delay_alert" THEN found ELSE "",
                      incident, RemoveAt(tasks, i))
    /\ out' = <<>>
    /\ UNCHANGED <<booted, alertCounters>>
    /\ AlertIdle

\* Completed without the feedback timer
CompletedNoTimer(p) ==
    LET w == procs[p].wf
        wf == wheap[w]
    IN /\ procs' = [procs EXCEPT ![p] = GoneProc]
       /\ IF procs[p].purpose = "off"
          THEN /\ out' = <<PostCall(wf.threadTs, CompleteVpnText)>>
               /\ tasks' = Append(tasks, Task("post", wf.kind, wf.threadTs, w))
               /\ wheap' = wheap
          ELSE /\ out' = <<>>
               /\ tasks' = tasks
               /\ wheap' = [wheap EXCEPT ![w] = [wf EXCEPT !.cliChild = 0]]
       /\ UNCHANGED <<booted, db, workflows, alertCounters>>
       /\ AlertIdle

\* the completion promise of subprocess p resolves.  For an investigation
\* or a follow-up, done.then: null the workflow's handle and, when the
\* message has a registered workflow, start the feedback timer; for the
\* "off" run of a cleanup, the cleanup goes on to post its notice.
Completed(p) ==
    LET w == procs[p].wf
        wf == wheap[w]
    IN /\ procs' = [procs EXCEPT ![p] = GoneProc]
       /\ IF procs[p].purpose = "off"
          THEN /\ out' = <<PostCall(wf.threadTs, CompleteVpnText)>>
               /\ tasks' = Append(tasks, Task("post", wf.kind, wf.threadTs, w))
               /\ wheap' = wheap
          ELSE /\ out' = <<>>
               /\ tasks' = tasks
               /\ wheap' = [wheap EXCEPT ![w] =
                     IF workflows[wf.kind][wf.threadTs] # 0
                     THEN startFeedbackTimer([wf EXCEPT !.cliChild = 0])
                     ELSE [wf EXCEPT !.cliChild = 0]]
       /\ UNCHANGED <<booted, db, workflows, alertCounters>>
       /\ AlertIdle

\* child.on("close"), or child.on("error") when the launch failed: both
\* resolve the promise
CliClose(p) ==
    /\ p \in 1..Len(procs)
    /\ procs[p].os = "running"
    /\ Completed(p)

\* the feedback timer of workflow object w fires: cleanupWorkflow /
\* cleanupDelayWorkflow up to its first await
FeedbackTimeout(w) ==
    /\ w \in 1..Len(wheap)
    /\ wheap[w].feedbackTimer
    /\ wheap' = [wheap EXCEPT ![w] = [clearFeedbackTimer(@) EXCEPT !.cliChild = 0]]
    /\ IF wheap[w].kind = "alert"
       THEN /\ Len(procs) < MaxProcs
            /\ procs' = Append(KillChild(w), NewProc(w, "off", <<>>))
            /\ tasks' = tasks
            /\ out' = <<>>
       ELSE /\ procs' = KillChild(w)
            /\ tasks' = Append(tasks, Task("post", wheap[w].kind, wheap[w].threadTs, w))
            /\ out' = <<PostCall(wheap[w].threadTs, CompleteText)>>
    /\ UNCHANGED <<booted, db, workflows, alertCounters>>
    /\ AlertIdle

\* the completion notice of a cleanup returns: delete the registry entry
\* of the thread, and for an alert its row
PostReturn(i) ==
    /\ i \in 1..Len(tasks)
    /\ tasks[i].kind = "post"
    /\ workflows' = [workflows EXCEPT ![tasks[i].wkind][tasks[i].thread] = 0]
    /\ db' = IF tasks[i].wkind = "alert" THEN deleteWorkflow(db, tasks[i].thread)
             ELSE db
    /\ tasks' = RemoveAt(tasks, i)
    /\ out' = <<>>
    /\ UNCHANGED <<booted, wheap, procs, alertCounters>>
    /\ AlertIdle

\* handleOwnerFeedback / handleDelayOwnerFeedback: clear the timer, kill
\* the subprocess whose handle is held, spawn the follow-up
OwnerFeedback(k, t, text) ==
    /\ LET w == workflows[k][t] IN
       IF w = 0
       THEN UNCHANGED <<wheap, procs>>
       ELSE /\ Len(procs) < MaxProcs
            /\ procs' = Append(KillChild(w), NewProc(w, "followup", text))
            /\ wheap' = [wheap EXCEPT ![w] =
                            [clearFeedbackTimer(@) EXCEPT !.cliChild = Len(procs) + 1]]
    /\ out' = <<>>
    /\ UNCHANGED <<booted, db, workflows, tasks, alertCounters>>
    /\ AlertIdle

handleOwnerFeedback(t, text) ==
    /\ booted
    /\ OwnerFeedback("alert", t, text)

handleDelayOwnerFeedback(t, text) ==
    /\ booted
    /\ OwnerFeedback("delay_alert", t, text)

\* killAlertWorkflow / killDelayWorkflow
KillWorkflow(k, t) ==
    /\ LET w == workflows[k][t] IN
       IF w = 0
       THEN UNCHANGED <<workflows, wheap, procs, db>>
       ELSE /\ procs' = KillChild(w)
            /\ wheap' = [wheap EXCEPT ![w] = [clearFeedbackTimer(@) EXCEPT !.cliChild = 0]]
            /\ workflows' = [workflows EXCEPT ![k][t] = 0]
            /\ db' = IF k = "alert" THEN deleteWorkflow(db, t) ELSE db
    /\ out' = <<>>
    /\ UNCHANGED <<booted, tasks, alertCounters>>
    /\ AlertIdle

killAlertWorkflow(t) ==
    /\ booted
    /\ KillWorkflow("alert", t)

killDelayWorkflow(t) ==
    /\ booted
    /\ KillWorkflow("delay_alert", t)

\* killAllWorkflows / killAllDelayWorkflows
KillAll(k) ==
    /\ \E t \in Threads : workflows[k][t] # 0
    /\ LET reg == { workflows[k][t] : t \in Threads } \ {0}
           handles == { wheap[w].cliChild : w \in reg } \ {0}
       IN /\ procs' = [p \in 1..Len(procs) |->
                          IF p \in handles /\ procs[p].os = "running"
                          THEN [procs[p] EXCEPT !.signalled = TRUE] ELSE procs[p]]
          /\ wheap' = [w \in 1..Len(wheap) |->
                          IF w \in reg
                          THEN [clearFeedbackTimer(wheap[w]) EXCEPT !.cliChild = 0]
                          ELSE wheap[w]]
    /\ workflows' = [workflows EXCEPT ![k] = [t \in Threads |-> 0]]
    /\ db' = IF k = "alert"
             THEN [t \in Threads |-> IF workflows[k][t] # 0 THEN NoRow ELSE db[t]]
             ELSE db
    /\ out' = <<>>
    /\ UNCHANGED <<booted, tasks, alertCounters>>
    /\ AlertIdle

killAllWorkflows ==
    /\ booted
    /\ KillAll("alert")

killAllDelayWorkflows ==
    /\ booted
    /\ KillAll("delay_alert")

AlertInit ==
    /\ booted = FALSE
    /\ discussions = [t \in Threads |-> 0]
    /\ heap = <<>>
    /\ db \in [Threads -> {NoRow, Row("alert", JNull)}]
    /\ pend = <<>>
    /\ children = <<>>
    /\ msgs = <<>>
    /\ out = <<>>
    /\ wire = <<>>
    /\ sent = 0
    /\ closure = ParserInit
    /\ resolved = <<>>
    /\ ChunkerIdle
    /\ AlertingIdle

AlertNext ==
    \/ restoreAlertWorkflows
    \/ \E t \in Threads, incident \in BOOLEAN : startAlertWorkflow(t, incident)
    \/ \E i \in 1..MaxProcs : AckReturn(i)
    \/ \E t \in Threads, dag \in Dags : MonitorDelayAlert(t, dag)
    \/ \E dag \in Dags : WindowExpired(dag)
    \/ \E t \in Threads : handleTriggerAlert(t)
    \/ \E t \in Threads : handleTriggerDelayAlert(t)
    \/ \E i \in 1..MaxProcs : HistoryReturn(i)
    \/ \E p \in 1..MaxProcs : CliClose(p)
    \/ \E w \in 1..MaxWorkflows : FeedbackTimeout(w)
    \/ \E i \in 1..MaxProcs : PostReturn(i)
    \/ \E t \in Threads, text \in FeedbackTexts : handleOwnerFeedback(t, text)
    \/ \E t \in Threads, text \in FeedbackTexts : handleDelayOwnerFeedback(t, text)
    \/ \E t \in Threads : killAlertWorkflow(t)
    \/ \E t \in Threads : killDelayWorkflow(t)
    \/ killAllWorkflows
    \/ killAllDelayWorkflows

AlertSpec == AlertInit /\ [][AlertNext]_vars

\* The delay-alert monitor alone: the process starts on the alert_counters
\* rows an earlier run left, counts alerts, and its workflows end by kill.
StoredCounters ==
    { NoCounterRow } \cup
    { CounterRow(n, e) : n \in 1..DelayAlertThreshold, e \in BOOLEAN }

MonitorInit ==
    /\ booted = FALSE
    /\ discussions = [t \in Threads |-> 0]
    /\ heap = <<>>
    /\ db = [t \in Threads |-> NoRow]
    /\ pend = <<>>
    /\ children = <<>>
    /\ msgs = <<>>
    /\ out = <<>>
    /\ wire = <<>>
    /\ sent = 0
    /\ closure = ParserInit
    /\ resolved = <<>>
    /\ ChunkerIdle
    /\ workflows = [k \in WorkflowKinds |-> [t \in Threads |-> 0]]
    /\ wheap = <<>>
    /\ procs = <<>>
    /\ tasks = <<>>
    /\ alertCounters \in [Dags -> { [NoCounter EXCEPT !.row = r] : r \in StoredCounters }]

MonitorNext ==
    \/ restoreAlertCounters
    \/ \E t \in Threads, dag \in Dags : MonitorDelayAlert(t, dag)
    \/ \E dag \in Dags : WindowExpired(dag)
    \/ \E t \in Threads : killDelayWorkflow(t)

MonitorSpec == MonitorInit /\ [][MonitorNext]_vars

\* ------------------------------------------------------------------------
\* The channel message router (handlers/message.ts, registerHandlers): one
\* message event, from its receipt to the call of a discuss handler.  The
\* awaits between the registry lookup and that call (files, thread context)
\* are not a step of their own: every handler looks the session up again.
\* The one-shot DM run of the owner and the Gemini routes are left out, and
\* so are the heartbeat and timeout timers of a running turn.
\* ------------------------------------------------------------------------
Users == {"owner", "other", "bot"}

BotMention == T("<@U>", 1)
ExitCmd == T("!exit", 5)
CompactCmd == T("!compact", 8)
DeclineText == T("To save Claude tokens, I only reply for the owner", 45)

\* message texts: nothing, a prompt or a command, with and without the
\* mention of the bot in front
RouterBodies == { <<>>, T("hello", 5), ExitCmd, CompactCmd }
RouterTexts == { T("hello", 5) } \cup { BotMention \o T(" ", 1) \o b : b \in RouterBodies }
\* the messages the router receives: a bot message returns before anything
\* of it is read, an owner message in a DM goes to handleDm, and a message
\* of another user is read for its mention only
Messages ==
    { m \in [user : Users, dm : BOOLEAN, edit : BOOLEAN, text : RouterTexts] :
        /\ m.user = "bot" => ~m.dm /\ ~m.edit /\ m.text = T("hello", 5)
        /\ m.user = "owner" => ~m.dm
        /\ m.user = "other" =>
              m.text \in { T("hello", 5), BotMention \o T(" ", 1) \o T("hello", 5) } }

\* text.includes(`<@${botUserId}>`)
hasMention(text) == \E i \in 1..Len(text) : text[i].ch = "<@U>"

\* a router that answers every user
isOwnerAnyone(user) == user # "bot"

\* userId === ownerUserId
isOwner(user) == user = "owner"

\* return without a call
Ignored ==
    /\ out' = <<>>
    /\ UNCHANGED <<booted, discussions, heap, db, pend, children, msgs>>
    /\ UNCHANGED <<harness, chunker, alerting>>

\* the polite decline to a user who is not the owner
Declined(t, dm) ==
    /\ out' = <<PostCall(IF dm THEN "" ELSE t, DeclineText)>>
    /\ UNCHANGED <<booted, discussions, heap, db, pend, children, msgs>>
    /\ UNCHANGED <<harness, chunker, alerting>>

\* app.message(...): a message of `user` on thread t (or in a DM), new or
\* edited, with text `text`
RouterMessage(user, dm, edit, t, text) ==
    /\ booted
    /\ ~(isOwner(user) /\ dm)
    /\ LET cleanText == stripMention(text) IN
       IF user = "bot" THEN Ignored
       ELSE IF edit /\ discussions[t] # 0 THEN Ignored
       ELSE IF ~isOwner(user)
       THEN (IF hasMention(text) THEN Declined(t, dm) ELSE Ignored)
       ELSE IF ~hasMention(text) \/ cleanText = <<>> THEN Ignored
       ELSE IF workflows["alert"][t] # 0 \/ workflows["delay_alert"][t] # 0
       THEN Ignored
       ELSE IF cleanText = CompactCmd /\ discussions[t] # 0
       THEN handleDiscussCompact(t)
       ELSE IF cleanText = ExitCmd /\ discussions[t] # 0
       THEN handleDiscussExit(t)
       ELSE IF discussions[t] # 0
       THEN handleDiscussReply(t, cleanText)
       ELSE startDiscussSession(t, cleanText)

RouterNext ==
    \/ restoreDiscussions
    \/ \E m \in Messages, t \in Active : RouterMessage(m.user, m.dm, m.edit, t, m.text)
    \/ \E i \in 1..MaxChildren : PlaceholderReturn(i)
    \/ \E c \in 1..MaxChildren : ChildClose(c)
    \/ \E c \in 1..MaxChildren : ChildError(c)
    \/ \E c \in 1..MaxChildren : DeliverReturn(c)
    \/ \E c \in 1..MaxChildren : CompactClose(c)
    \/ \E c \in 1..MaxChildren : CompactError(c)

\* the process starts with no row, or with the row of an idle session
RouterInit ==
    /\ booted = FALSE
    /\ discussions = [t \in Threads |-> 0]
    /\ heap = <<>>
    /\ db \in [Threads -> {NoRow, Row("discuss", Tok1)}]
    /\ \A t \in Threads \ Active : db[t] = NoRow
    /\ pend = <<>>
    /\ children = <<>>
    /\ msgs = <<>>
    /\ out = <<>>
    /\ wire = <<>>
    /\ sent = 0
    /\ closure = ParserInit
    /\ resolved = <<>>
    /\ ChunkerIdle
    /\ AlertingIdle

RouterSpec == RouterInit /\ [][RouterNext]_vars

\* ------------------------------------------------------------------------
\* Startup: restoreDiscussions over every content of active_workflows, with
\* rows of the three workflow types on either thread
\* ------------------------------------------------------------------------
StoredRows ==
    InitRows \cup { Row("discuss", Tok2), Row("alert", Tok1),
                    Row("delay_alert", JNull), Row("delay_alert", Tok1) }

StartupInit ==
    /\ booted = FALSE
    /\ discussions = [t \in Threads |-> 0]
    /\ heap = <<>>
    /\ db \in [Threads -> StoredRows]
    /\ pend = <<>>
    /\ children = <<>>
    /\ msgs = <<>>
    /\ out = <<>>
    /\ wire = <<>>
    /\ sent = 0
    /\ closure = ParserInit
    /\ resolved = <<>>
    /\ ChunkerIdle
    /\ AlertingIdle

StartupNext == restoreDiscussions

StartupSpec == StartupInit /\ [][StartupNext]_vars

\* ------------------------------------------------------------------------
\* Claims
\* ------------------------------------------------------------------------
Registered(d) == \E t \in Threads : discussions[t] = d
Running(c) == children[c].os = "running"
ChildrenOf(d) == { c \in 1..Len(children) : children[c].obj = d }

\* C1: every session held in the registry has at most one running subprocess
\* among those launched for it by start, reply or compact.
C1_AtMostOneInFlight ==
    \A d \in 1..Len(heap) :
        Registered(d) => Cardinality({ c \in ChildrenOf(d) : Running(c) }) <= 1

\* a reply was turned away ("Still thinking") while the session's subprocess runs
C1_Witness ==
    \E t \in Threads :
        /\ discussions[t] # 0
        /\ \E c \in ChildrenOf(discussions[t]) : Running(c)
        /\ out = <<PostCall(t, StillThinkingText)>>
        /\ Len(children) = 1

Idle == UNCHANGED <<booted, discussions, heap, db, pend, children, msgs>>

\* C2 as stated: every reply that arrives while the session is processing
\* spawns nothing, posts exactly one "Still thinking" notice, and leaves the
\* session's fields as they were.
C2_EveryReplyNotified ==
    [][ \A t \in Threads, text \in UserTexts :
          ( /\ discussions[t] # 0
            /\ heap[discussions[t]].isProcessing
            /\ handleDiscussReply(t, text) )
          => /\ out' = <<PostCall(t, StillThinkingText)>>
             /\ Idle ]_vars

\* C2, amended: a reply that arrives while the session is processing spawns
\* nothing and leaves the session's cliSessionId, cliChild, isProcessing and
\* lastSeenTs (and all other state) as they were; it posts exactly one
\* "Still thinking" notice when its text is not empty once the mentions are
\* stripped, and nothing at all when it is.
C2_ReplyWhileProcessing ==
    [][ \A t \in Threads, text \in UserTexts :
          ( /\ discussions[t] # 0
            /\ heap[discussions[t]].isProcessing
            /\ handleDiscussReply(t, text) )
          => /\ out' = IF stripMention(text) # <<>>
                       THEN <<PostCall(t, StillThinkingText)>> ELSE <<>>
             /\ Idle ]_vars

C2_Witness ==
    \E t \in Threads :
        /\ discussions[t] # 0
        /\ heap[discussions[t]].isProcessing
        /\ heap[discussions[t]].cliChild # 0
        /\ heap[discussions[t]].cliSessionId = Tok1
        /\ out = <<PostCall(t, StillThinkingText)>>

\* the session id carried by the terminal "result" record of a stream: the
\* last newline-terminated line that is a JSON object of type "result"
RECURSIVE Flatten(_)
Flatten(chunks) ==
    IF chunks = <<>> THEN <<>> ELSE chunks[1] \o Flatten(Tail(chunks))
CompleteLines(stream) ==
    LET segs == SplitNL(Flatten(stream)) IN SubSeq(segs, 1, Len(segs) - 1)
IsTerminalRecord(line) ==
    /\ JsonParse(line).ok
    /\ JsonParse(line).o.t = "object"
    /\ JsonParse(line).o.type = "result"
CarriedToken(stream) ==
    LET recs == SelectSeq(CompleteLines(stream), IsTerminalRecord)
    IN IF recs = <<>> THEN Undef
       ELSE LET sid == JsonParse(recs[Len(recs)]).o.session_id
            IN IF IsStr(sid) /\ sid.v # <<>> THEN sid ELSE Undef

\* C3: when a turn finalizes, the session's stored cliSessionId is the
\* session id of the turn's terminal result record if the record carries one;
\* a turn whose terminal record carries none, or that produced no terminal
\* record (a failed launch included), leaves the stored token as it was.
C3_ResumptionMonotonic ==
    [][ /\ \A c \in 1..MaxChildren, run \in Runs :
             ( /\ c <= Len(children) /\ Running(c) /\ ~Running(c)'
               /\ ChildCloseWith(c, run.code, run.stream) )
             => heap'[children[c].obj].cliSessionId =
                   IF CarriedToken(run.stream) # Undef THEN CarriedToken(run.stream)
                   ELSE heap[children[c].obj].cliSessionId
        /\ \A c \in 1..MaxChildren :
             (c <= Len(children) /\ ~Running(c) /\ ChildError(c))
             => heap'[children[c].obj].cliSessionId =
                   heap[children[c].obj].cliSessionId ]_vars

\* a turn resumed with token s1 has finalized and stored the token s2
C3_Witness ==
    \E c \in 1..Len(children) :
        /\ children[c].pc = "deliver"
        /\ children[c].resumeArg = Tok1
        /\ heap[children[c].obj].cliSessionId = Tok2

\* C4: when the timeout timer has fired (timedOut set, the subprocess
\* signalled) before the subprocess closes, the text delivered for the turn
\* is the timeout message, whatever the stream and the exit code were.
C4_TimeoutOverridesContent ==
    [][ \A c \in 1..MaxChildren, run \in Runs :
          ( /\ c <= Len(children)
            /\ children[c].timedOut /\ Running(c) /\ ~Running(c)'
            /\ ChildCloseWith(c, run.code, run.stream) )
          => /\ Len(out') = 1 /\ out'[1].text = TimeoutText
             /\ children'[c].rest = <<>> ]_vars

C4_Witness ==
    \E c \in 1..Len(children) :
        /\ children[c].pc = "deliver"
        /\ children[c].timedOut /\ children[c].signalled
        /\ children[c].rest = <<>>
        /\ Len(out) = 1 /\ out[1].text = TimeoutText

\* C5: every turn dispatched by start or reply finalizes: whether its
\* subprocess exits by itself, fails to launch, or runs until the timeout
\* timer kills it, the turn reaches the point where its session has
\* isProcessing = false and cliChild = null and the outcome is being delivered.
C5_TurnsFinalize ==
    \A d \in 1..MaxSessions :
        (\E i \in 1..Len(pend) :
            pend[i].obj = d /\ pend[i].kind \in {"start", "reply"})
        ~> (\E c \in 1..Len(children) :
              /\ children[c].obj = d /\ children[c].kind = "turn"
              /\ children[c].pc = "deliver"
              /\ ~heap[d].isProcessing /\ heap[d].cliChild = 0)

\* a turn whose subprocess the timeout timer killed has finalized
C5_Witness ==
    \E c \in 1..Len(children) :
        /\ children[c].kind = "turn" /\ children[c].pc = "deliver"
        /\ children[c].timedOut /\ children[c].signalled
        /\ ~heap[children[c].obj].isProcessing
        /\ heap[children[c].obj].cliChild = 0
        /\ discussions[children[c].thread] = children[c].obj

\* C6: an exit on a registered session signals every running subprocess of
\* the session, removes the session from the registry, deletes its row, and
\* posts exactly one closing notice.
C6_ExitReleases ==
    [][ \A t \in Threads :
          (discussions[t] # 0 /\ handleDiscussExit(t))
          => /\ \A c \in ChildrenOf(discussions[t]) :
                   Running(c) => children'[c].signalled
             /\ discussions'[t] = 0
             /\ db'[t] = NoRow
             /\ out' = <<PostCall(t, SessionEndedText)>> ]_vars

C6_Witness ==
    \E t \in Threads, c \in 1..Len(children) :
        /\ discussions[t] = 0 /\ db[t] = NoRow
        /\ out = <<PostCall(t, SessionEndedText)>>
        /\ children[c].thread = t /\ Running(c)
        /\ children[c].signalled /\ ~children[c].timedOut

\* C7: an exit on an identifier that is not registered (never registered, or
\* already exited) changes no state, signals nothing and sends no message.
C7_ExitIdempotent ==
    [][ \A t \in Threads :
          (discussions[t] = 0 /\ handleDiscussExit(t))
          => /\ out' = <<>>
             /\ heap' = heap /\ children' = children
             /\ Idle ]_vars

\* the session of T1 has been exited (its subprocess, signalled, still runs)
\* and a further call returned without an outbound call
C7_Witness ==
    \E c \in 1..Len(children) :
        /\ discussions["T1"] = 0 /\ db["T1"] = NoRow
        /\ children[c].thread = "T1" /\ Running(c) /\ children[c].signalled
        /\ ~children[c].timedOut
        /\ out = <<>>

\* C8: a start on an unregistered identifier registers and persists a session
\* with isProcessing = true and attempts the "Thinking..." placeholder before
\* any subprocess exists; the subprocess it then spawns has no resume token;
\* and when that subprocess closes with exit code 0, a response and a session
\* id, the session has isProcessing = false and cliSessionId = that id, and
\* the placeholder is updated to the response followed by the usage footer
\* (to its first chunk when the text is over the length budget).
C8_FreshSession ==
    [][ /\ \A t \in Threads, text \in UserTexts :
             ( /\ discussions[t] = 0 /\ stripMention(text) # <<>>
               /\ startDiscussSession(t, text) )
             => LET d == discussions'[t] IN
                /\ d # 0 /\ d = Len(heap')
                /\ heap'[d].isProcessing /\ heap'[d].cliSessionId = JNull
                /\ heap'[d].cliChild = 0
                /\ db'[t] = Row("discuss", JNull)
                /\ out' = <<PostCall(t, ThinkingText)>>
                /\ children' = children
                /\ Len(pend') = Len(pend) + 1
                /\ pend'[Len(pend')].kind = "start" /\ pend'[Len(pend')].obj = d
        /\ \A i \in 1..MaxChildren :
             (i <= Len(pend) /\ pend[i].kind = "start" /\ PlaceholderReturn(i))
             => /\ Len(children') = Len(children) + 1
                /\ children'[Len(children')].obj = pend[i].obj
                /\ children'[Len(children')].resumeArg = Undef
        /\ \A c \in 1..MaxChildren, run \in Runs :
             LET r == DiscussResultOnClose(run.stream, run.code) IN
             ( /\ c <= Len(children)
               /\ children[c].resumeArg = Undef /\ Running(c) /\ ~Running(c)'
               /\ ~children[c].timedOut /\ children[c].thinkingTs # 0
               /\ run.code = Num(0)
               /\ Truthy(r.response) /\ Truthy(r.sessionId)
               /\ ChildCloseWith(c, run.code, run.stream) )
             => LET d == children[c].obj
                    full == r.response.v \o buildUsageFooter(r)
                IN /\ ~heap'[d].isProcessing
                   /\ heap'[d].cliSessionId = r.sessionId
                   /\ out' = <<UpdateCall(children[c].thread, chunkResponse(full)[1],
                                          children[c].thinkingTs)>>
                   /\ TextLen(full) <= SLACK_MAX_LENGTH => out'[1].text = full ]_vars

\* the first turn of a fresh session closed with "hi" and the id s2: the
\* placeholder holds "hi" and the footer, the session is idle and holds s2
C8_Witness ==
    \E c \in 1..Len(children) :
        /\ children[c].pc = "deliver" /\ children[c].resumeArg = Undef
        /\ children[c].thinkingTs # 0 /\ children[c].callTs = children[c].thinkingTs
        /\ out = <<UpdateCall(children[c].thread,
                              Hi.v \o T("\n", 2) \o T("footer:model", 20),
                              children[c].thinkingTs)>>
        /\ ~heap[children[c].obj].isProcessing
        /\ heap[children[c].obj].cliSessionId = Tok2
        /\ discussions[children[c].thread] = children[c].obj

\* C9: a start on an identifier that is already registered posts no
\* placeholder, spawns nothing, writes nothing to the store, and leaves the
\* registered session's fields as they were.
C9_DuplicateStart ==
    [][ \A t \in Threads, text \in UserTexts :
          (discussions[t] # 0 /\ startDiscussSession(t, text))
          => /\ out' = <<>>
             /\ db' = db /\ heap' = heap
             /\ children' = children /\ pend' = pend
             /\ Idle ]_vars

\* a registered session whose first turn is still awaited, after a step that
\* made no outbound call and launched nothing
C9_Witness ==
    /\ discussions["T1"] # 0
    /\ heap[discussions["T1"]].isProcessing
    /\ heap[discussions["T1"]].cliSessionId = JNull
    /\ Len(pend) = 1 /\ pend[1].kind = "start" /\ children = <<>>
    /\ db["T1"] = Row("discuss", JNull)
    /\ out = <<>>

\* C10: a compact goes on to launch only when the session exists, is not
\* processing and holds a token; with no session it makes no outbound call;
\* with a session that is processing or holds no token it posts exactly one
\* rejection notice, spawns nothing, and leaves the session as it was.
C10_CompactAdmission ==
    [][ \A t \in Threads :
          handleDiscussCompact(t)
          => LET d == discussions[t] IN
             /\ d = 0 => out' = <<>> /\ Idle
             /\ (d # 0 /\ heap[d].isProcessing)
                  => out' = <<PostCall(t, CantCompactText)>> /\ Idle
             /\ (d # 0 /\ ~heap[d].isProcessing /\ ~Truthy(heap[d].cliSessionId))
                  => out' = <<PostCall(t, NoCompactSessionText)>> /\ Idle
             /\ (pend' # pend \/ children' # children)
                  => /\ d # 0 /\ ~heap[d].isProcessing /\ Truthy(heap[d].cliSessionId)
                     /\ children' = children
                     /\ pend' = Append(pend, pend'[Len(pend')])
                     /\ pend'[Len(pend')].kind = "compact"
                     /\ pend'[Len(pend')].obj = d ]_vars

C10_Witness ==
    \E t \in Threads :
        /\ discussions[t] # 0
        /\ ~heap[discussions[t]].isProcessing
        /\ ~Truthy(heap[discussions[t]].cliSessionId)
        /\ out = <<PostCall(t, NoCompactSessionText)>>

\* the token of every session object that is still in use is what it was
TokensKept ==
    \A d \in 1..Len(heap) :
        Reachable(d, discussions', pend', children')
            => heap'[d].cliSessionId = heap[d].cliSessionId

\* C11: no step of a compact (the admission, the spawn after the placeholder
\* post, the close or launch error of its subprocess, its safety timeout)
\* changes a session's stored cliSessionId or the persisted rows; and when
\* the compact fails (its subprocess closes with a code other than 0, killed
\* or not, or fails to launch) the message sent is "Compact failed".
C11_CompactKeepsToken ==
    [][ /\ \A t \in Threads :
             handleDiscussCompact(t) => TokensKept /\ db' = db
        /\ \A i \in 1..MaxChildren :
             (i <= Len(pend) /\ pend[i].kind = "compact" /\ PlaceholderReturn(i))
             => TokensKept /\ db' = db
        /\ \A c \in 1..MaxChildren :
             (c <= Len(children) /\ children[c].kind = "compact"
                /\ children[c].pc = "awaitDone")
             => /\ CompactSafetyTimeout(c) => TokensKept /\ db' = db
                /\ CompactError(c)
                     => /\ TokensKept /\ db' = db
                        /\ Len(out') = 1 /\ out'[1].text = CompactFailedText
                /\ \A run \in Runs :
                     (children'[c].pc = "finished"
                        /\ CompactCloseWith(c, run.code, run.stream))
                     => /\ TokensKept /\ db' = db
                        /\ run.code # Num(0)
                             => Len(out') = 1 /\ out'[1].text = CompactFailedText
      ]_vars

\* a compact of a registered session holding s1 has failed: the placeholder
\* says so, and the session and its row still hold s1
C11_Witness ==
    \E t \in Threads, ts \in 1..MaxMsgs :
        /\ discussions[t] # 0
        /\ out = <<UpdateCall(t, CompactFailedText, ts)>>
        /\ heap[discussions[t]].cliSessionId = Tok1
        /\ db[t] = Row("discuss", Tok1)
        /\ ~heap[discussions[t]].isProcessing

\* C12: every compact whose subprocess was launched finalizes (its
\* subprocess closes, fails to launch, or is killed by the safety timer and
\* then closes); the step that finalizes it leaves the session with
\* isProcessing = false and cliChild = null and sends one message, which
\* reports success exactly when the subprocess closed with exit code 0.
C12_CompactAlwaysClears ==
    /\ \A c \in 1..MaxChildren :
          (c <= Len(children) /\ children[c].kind = "compact"
             /\ children[c].pc = "awaitDone")
          ~> (c <= Len(children) /\ children[c].pc = "finished")
    /\ [][ \A c \in 1..MaxChildren :
             (c <= Len(children) /\ children[c].kind = "compact"
                /\ children[c].pc = "awaitDone" /\ children'[c].pc = "finished")
             => /\ ~heap'[children[c].obj].isProcessing
                /\ heap'[children[c].obj].cliChild = 0
                /\ Len(out') = 1
                /\ CompactError(c) => out'[1].text = CompactFailedText
                /\ \A run \in Runs :
                     CompactCloseWith(c, run.code, run.stream)
                     => (out'[1].text # CompactFailedText <=> run.code = Num(0))
         ]_vars

\* a compact of a registered session has succeeded: the placeholder says
\* so and the session is idle with no handle
C12_Witness ==
    \E t \in Threads, ts \in 1..MaxMsgs, c \in 1..Len(children) :
        /\ discussions[t] # 0
        /\ children[c].kind = "compact" /\ children[c].pc = "finished"
        /\ out = <<UpdateCall(t, T("Session compacted.", 18), ts)>>
        /\ ~heap[discussions[t]].isProcessing
        /\ heap[discussions[t]].cliChild = 0

\* C13: once the completion of a turn's subprocess has been observed (the
\* turn is delivering its outcome), the turn's heartbeat timer does not
\* update the placeholder again and its timeout timer does not fire again.
C13_TimersCancelled ==
    [][ \A c \in 1..MaxChildren :
          (c <= Len(children) /\ children[c].pc = "deliver")
          => ~HeartbeatTick(c) /\ ~TimeoutFire(c) ]_vars

\* C14: bulk shutdown signals every running subprocess whose handle a
\* registered session holds and leaves the registry empty.
C14_ShutdownReleasesAll ==
    [][ killAllDiscussWorkflows
          => /\ \A t \in Threads : discussions'[t] = 0
             /\ \A t \in Threads :
                  (discussions[t] # 0 /\ heap[discussions[t]].cliChild # 0
                     /\ Running(heap[discussions[t]].cliChild))
                  => children'[heap[discussions[t]].cliChild].signalled ]_vars

\* C15: restoreDiscussions registers, for each persisted row of type
\* "discuss", one session of its own with cliChild = null, isProcessing =
\* false, lastSeenTs = null and cliSessionId equal to the row's
\* cli_session_id, and registers nothing for a thread whose row is of another
\* type or absent.
C15_RestoreExact ==
    [][ restoreDiscussions
          => /\ \A t \in Threads :
                  IF db[t].workflow_type = "discuss"
                  THEN /\ discussions'[t] \in 1..Len(heap')
                       /\ heap'[discussions'[t]] =
                             [channelId |-> "C", threadTs |-> t,
                              cliSessionId |-> db[t].cli_session_id,
                              cliChild |-> 0, isProcessing |-> FALSE,
                              lastSeenTs |-> 0]
                  ELSE discussions'[t] = 0
             /\ Len(heap') = Cardinality({ t \in Threads :
                                              db[t].workflow_type = "discuss" })
             /\ \A t1, t2 \in Threads :
                  (t1 # t2 /\ discussions'[t1] # 0)
                  => discussions'[t1] # discussions'[t2] ]_vars

\* restored from a discuss row holding s2 on T1 and one holding no token on
\* T2: two sessions; and from an alert row on T2: none for T2
C15_Witness ==
    /\ booted
    /\ discussions["T1"] # 0
    /\ heap[discussions["T1"]].cliSessionId = Tok2
    /\ \/ /\ db["T2"] = Row("alert", Tok1) /\ discussions["T2"] = 0
          /\ Len(heap) = 1
       \/ /\ db["T2"] = Row("discuss", JNull) /\ discussions["T2"] # 0
          /\ heap[discussions["T2"]].cliSessionId = JNull
          /\ Len(heap) = 2

\* what of stdout has been delivered, as bytes
Delivered == SubSeq(wire, 1, sent)

\* the closure variables without the pending buffer
Fields(p) == [p EXCEPT !.stdout = <<>>]

\* C16: however the bytes of stdout were cut into chunks, the closure
\* variables are what the delivery of the same bytes in one chunk gives (the
\* records of the complete lines, parsed in order), and the promise resolves
\* to the result that the delivery of all of stdout in one chunk gives.
C16_ChunkingInvariant ==
    /\ Fields(closure) = Fields(OnData(ParserInit, Delivered))
    /\ resolved # <<>>
         => resolved[1] = OnClose(OnData(ParserInit, wire), resolved[1].exitCode)

\* the complete lines of the delivered text that are assistant records
\* carrying a usage object
IsUsageRecord(line) ==
    /\ JsonParse(line).ok
    /\ JsonParse(line).o.t = "object"
    /\ JsonParse(line).o.type = "assistant"
    /\ JsonParse(line).o.usage.t = "object"
UsageRecords(bytes) == SelectSeq(CompleteLines(<<Decode(bytes)>>), IsUsageRecord)
UsageSum(u) ==
    NumOr0(u.input_tokens) + NumOr0(u.cache_creation_input_tokens)
        + NumOr0(u.cache_read_input_tokens)
LastUsage(bytes) ==
    LET recs == UsageRecords(bytes)
    IN IF recs = <<>> THEN Undef
       ELSE Num(UsageSum(JsonParse(recs[Len(recs)]).o.usage))

\* C17: inputTokens is, at every point of the stream, the sum of the three
\* input counters (a missing one counting 0) of the last assistant record
\* delivered so far that carries a usage object, undefined while there is
\* none; the turn result holds the value reached at the end of the stream.
C17_LastUsageWins ==
    /\ closure.inputTokens = LastUsage(Delivered)
    /\ resolved # <<>> => resolved[1].inputTokens = LastUsage(wire)

\* usages {100, 20, 5} then {50, 0, 200}: the turn result holds 250
C17_Witness ==
    /\ wire = JoinLines(<< <<OBJ(AssistantRec(T("draft", 5), UsageA)), END>>,
                           <<OBJ(JObj("assistant", UsageB, Undef, Undef, Undef,
                                      Undef, Undef)), END>> >>)
    /\ resolved # <<>>
    /\ resolved[1].inputTokens = Num(250)

\* the effect of the records of a sequence of JSON lines, in order
ApplyRecord(p, o) ==
    IF o.t # "object" THEN p
    ELSE LET p1 == IF o.type = "assistant" THEN OnAssistant(p, o) ELSE p
         IN IF o.type = "result" THEN OnResult(p1, o) ELSE p1
RECURSIVE ApplyRecords(_, _)
ApplyRecords(p, lines) ==
    IF lines = <<>> THEN p
    ELSE ApplyRecords(ApplyRecord(p, JsonParse(lines[1]).o), Tail(lines))
IsJson(line) == JsonParse(line).ok

\* C18: a data event changes the closure variables by the records of the
\* lines it completes that are JSON, in order, and by nothing else: a line
\* that is blank or is not JSON has no effect and the lines after it, in the
\* same chunk or a later one, are parsed.
C18_NoiseDropped ==
    [][ \A k \in 1..MaxChunk :
          StdoutData(k)
          => LET lines == SplitNL(closure.stdout
                                  \o Decode(SubSeq(wire, sent + 1, sent + k)))
                 complete == SubSeq(lines, 1, Len(lines) - 1)
             IN /\ Fields(closure') =
                      Fields(ApplyRecords(closure, SelectSeq(complete, IsJson)))
                /\ closure'.stdout = lines[Len(lines)] ]_vars

\* diagnostic text, a blank line and a cut-short JSON text were delivered
\* ahead of a terminal record, whose response and session id were taken
C18_Witness ==
    /\ \E i \in 1..3 :
         wire = JoinLines([j \in 1..3 |->
                    IF j = 3 THEN <<OBJ(ResultRec(Hi, Tok2)), END>>
                    ELSE IF j = i THEN <<X>> ELSE <<OBJ(ResultRec(Hi, Tok1))>>])
    /\ sent = Len(wire)
    /\ closure.response = Hi /\ closure.sessionId = Tok2

\* the text a finalized turn is to deliver: the timeout message if the
\* timeout fired; else the CLI-error message naming the exit code if the
\* exit code is not 0 and there is no response text; else the response text
\* (or the "No response" default) followed by the usage footer
ClassifiedText(timedOut, r) ==
    IF timedOut THEN TimeoutText
    ELSE IF r.exitCode # Num(0) /\ (r.response.t # "string" \/ r.response.v = <<>>)
    THEN CliErrorText(r.exitCode)
    ELSE (IF r.response.t = "string" /\ r.response.v # <<>>
          THEN r.response.v ELSE NoResponseText) \o buildUsageFooter(r)

\* C19: the step that finalizes a turn sends the first chunk of the text
\* classified as above and keeps the remaining chunks for delivery; in
\* particular a non-zero exit that yielded response text delivers that text
\* and its footer.
C19_OutcomeClassification ==
    [][ /\ \A c \in 1..MaxChildren, run \in Runs :
             ( /\ c <= Len(children) /\ Running(c) /\ ~Running(c)'
               /\ ChildCloseWith(c, run.code, run.stream) )
             => LET r == DiscussResultOnClose(run.stream, run.code)
                    chunks == chunkResponse(ClassifiedText(children[c].timedOut, r))
                IN /\ Len(out') = 1 /\ out'[1].text = chunks[1]
                   /\ children'[c].rest = Tail(chunks)
        /\ \A c \in 1..MaxChildren :
             ( /\ c <= Len(children) /\ children[c].pc = "awaitDone"
               /\ ChildError(c) )
             => LET chunks == chunkResponse(
                        ClassifiedText(children[c].timedOut, DiscussResultOnError))
                IN /\ Len(out') = 1 /\ out'[1].text = chunks[1]
                   /\ children'[c].rest = Tail(chunks) ]_vars

\* the first turn of a session wrote "hi" with no session id and exited with
\* code 1: the response and its footer were delivered, and no token stored
C19_Witness ==
    \E c \in 1..Len(children) :
        /\ children[c].pc = "deliver" /\ children[c].resumeArg = Undef
        /\ ~children[c].timedOut /\ ~children[c].signalled
        /\ Len(out) = 1
        /\ out[1].text = Hi.v \o T("\n", 2) \o T("footer:model", 20)
        /\ heap[children[c].obj].cliSessionId = JNull

\* C20: the result of a subprocess that was launched and then closed has a
\* non-null exitCode, and the result of a failed launch has exitCode = null.
C20_NullExitCodeMeansNoLaunch ==
    [][ /\ \A c \in 1..MaxChildren, run \in Runs :
             ( /\ c <= Len(children) /\ Running(c) /\ ~Running(c)'
               /\ ChildCloseWith(c, run.code, run.stream) )
             => DiscussResultOnClose(run.stream, run.code).exitCode # JNull
        /\ \A c \in 1..MaxChildren :
             (c <= Len(children) /\ children[c].pc = "awaitDone" /\ ChildError(c))
             => DiscussResultOnError.exitCode = JNull ]_vars

\* a registered session that is idle and holds no token
Tokenless(d) ==
    /\ Registered(d)
    /\ ~heap[d].isProcessing
    /\ ~Truthy(heap[d].cliSessionId)

\* while it stays registered, a tokenless idle session stays tokenless and
\* idle, and no subprocess is spawned or awaited for it
StaysTokenless ==
    \A d \in 1..Len(heap) :
        (Tokenless(d) /\ Registered(d)')
        => /\ Tokenless(d)'
           /\ heap'[d].cliChild = heap[d].cliChild
           /\ \A i \in 1..Len(pend') : pend'[i].obj # d
           /\ \A c \in 1..Len(children') :
                  (children'[c].obj = d /\ children'[c].os # "gone")
                  => (c <= Len(children) /\ children[c].os # "gone")

\* C21 as stated: handleDiscussReply on a thread with no registered session
\* makes no outbound call and changes nothing; on an idle session without a
\* token it posts exactly one guidance notice, spawns nothing and leaves the
\* session as it was; a registered idle session without a token never runs
\* another turn.
C21_ReplyWithoutToken ==
    /\ [][ \A t \in Threads, text \in UserTexts :
             handleDiscussReply(t, text)
             => /\ discussions[t] = 0 => (out' = <<>> /\ Idle)
                /\ (discussions[t] # 0 /\ Tokenless(discussions[t]))
                   => (out' = <<PostCall(t, NoCliSessionText)>> /\ Idle) ]_vars
    /\ [][StaysTokenless]_vars

\* C21, amended: handleDiscussReply on a thread with no registered session
\* makes no outbound call and changes nothing; on an idle session without a
\* token it spawns nothing and leaves the session as it was, posting exactly
\* one guidance notice when its text is not empty once the mentions are
\* stripped and nothing when it is; a registered idle session without a
\* token never runs another turn.
C21_ReplyWithoutTokenGuided ==
    /\ [][ \A t \in Threads, text \in UserTexts :
             handleDiscussReply(t, text)
             => /\ discussions[t] = 0 => (out' = <<>> /\ Idle)
                /\ (discussions[t] # 0 /\ Tokenless(discussions[t]))
                   => /\ out' = IF stripMention(text) # <<>>
                                THEN <<PostCall(t, NoCliSessionText)>> ELSE <<>>
                      /\ Idle ]_vars
    /\ [][StaysTokenless]_vars

\* the guidance notice was posted to a session whose first turn ended
\* without a token
C21_Witness ==
    \E t \in Threads :
        /\ discussions[t] # 0
        /\ Tokenless(discussions[t])
        /\ \E c \in ChildrenOf(discussions[t]) : children[c].os = "gone"
        /\ out = <<PostCall(t, NoCliSessionText)>>

\* C22: a failed outbound post or update never stops an operation short.  A
\* start whose placeholder post fails still creates the session, marked
\* processing, and its row; every handler suspended at its placeholder post
\* spawns its subprocess when the post returns, failed or not, and stores
\* the handle; a turn or compact that is finalized clears the session's
\* handle and processing flag whatever becomes of its messages; a failed
\* delivery sends nothing more and ends the turn with its timers released;
\* an exit removes the session and its row.
C22_DeliveryFailuresSwallowed ==
    [][ /\ \A t \in Threads :
             (booted /\ ~has(t) /\ has(t)' /\ msgs' = msgs)
             => /\ heap'[discussions'[t]].isProcessing
                /\ db'[t] = Row("discuss", JNull)
                /\ Len(pend') = Len(pend) + 1
                /\ pend'[Len(pend')].obj = discussions'[t]
                /\ pend'[Len(pend')].thinkingTs = 0
        /\ Len(pend') < Len(pend)
           => \E i \in 1..Len(pend) :
                 /\ pend' = RemoveAt(pend, i)
                 /\ Len(children') = Len(children) + 1
                 /\ children'[Len(children')].obj = pend[i].obj
                 /\ children'[Len(children')].thinkingTs = pend[i].thinkingTs
                 /\ children'[Len(children')].pc = "awaitDone"
                 /\ heap'[pend[i].obj].cliChild = Len(children')
        /\ \A c \in 1..Len(children) :
             /\ (children[c].pc = "awaitDone" /\ children'[c].pc # "awaitDone")
                => /\ ~heap'[children[c].obj].isProcessing
                   /\ heap'[children[c].obj].cliChild = 0
             /\ (children[c].pc = "deliver" /\ children[c].callTs = 0)
                => \/ /\ children'[c].pc = "deliver"
                      /\ children'[c].callTs = 0
                      /\ children'[c].rest = children[c].rest
                   \/ /\ children'[c].pc = "finished"
                      /\ ~children'[c].timeoutArmed
                      /\ ~children'[c].hbArmed
        /\ \A t \in Threads :
             (has(t) /\ handleDiscussExit(t))
             => (~has(t)' /\ db'[t] = NoRow) ]_vars

\* the placeholder post of a start failed, its subprocess was spawned all
\* the same, and the post of its answer has failed as well
C22_Witness ==
    \E c \in 1..Len(children) :
        /\ children[c].kind = "turn"
        /\ children[c].thinkingTs = 0
        /\ children[c].pc = "deliver"
        /\ children[c].callTs = 0
        /\ Registered(children[c].obj)
        /\ ~heap[children[c].obj].isProcessing
        /\ msgs = <<>>

\* C27: whenever a registered session is idle, the cli_session_id persisted
\* in the row of its thread equals the session's in-memory cliSessionId.
C27_PersistedTokenTracks ==
    \A t \in Threads :
        (discussions[t] # 0 /\ ~heap[discussions[t]].isProcessing)
        => db[t].cli_session_id = heap[discussions[t]].cliSessionId

\* C28: a turn launched by handleDiscussReply carries as its resume argument
\* the cliSessionId the session held when handleDiscussReply was called: the
\* reply is admitted only with a token, the token does not change while the
\* handler waits for its placeholder post, and the subprocess is spawned
\* with exactly that token, while a turn launched by start carries no resume
\* argument.  A session's token changes only when a turn of that session is
\* finalized with a session id, and then becomes that id, so the stored
\* token is the one of the most recent turn that returned one, or the
\* restored one.
C28_ReplyResumesStoredToken ==
    [][ /\ \A t \in Threads :
             ( /\ Len(pend') = Len(pend) + 1
               /\ pend'[Len(pend')].kind = "reply"
               /\ pend'[Len(pend')].thread = t )
             => /\ pend'[Len(pend')].obj = discussions[t]
                /\ Truthy(heap[discussions[t]].cliSessionId)
        /\ \A i \in 1..Len(pend) :
             /\ heap'[pend[i].obj].cliSessionId = heap[pend[i].obj].cliSessionId
             /\ (Len(pend') < Len(pend) /\ pend' = RemoveAt(pend, i))
                => LET new == children'[Len(children')] IN
                   /\ Len(children') = Len(children) + 1
                   /\ new.obj = pend[i].obj
                   /\ pend[i].kind = "start" => new.resumeArg = Undef
                   /\ pend[i].kind = "reply"
                      => /\ new.kind = "turn"
                         /\ new.resumeArg = heap[pend[i].obj].cliSessionId
                         /\ new.resumeArg.t = "string"
        /\ \A d \in 1..Len(heap) :
             (heap'[d] # Freed /\ heap'[d].cliSessionId # heap[d].cliSessionId)
             => \E c \in ChildrenOf(d), run \in Runs :
                   /\ children[c].kind = "turn"
                   /\ ChildCloseWith(c, run.code, run.stream)
                   /\ Truthy(DiscussResultOnClose(run.stream, run.code).sessionId)
                   /\ heap'[d].cliSessionId
                        = DiscussResultOnClose(run.stream, run.code).sessionId
        /\ \A c \in 1..Len(children), run \in Runs :
             ( /\ ChildCloseWith(c, run.code, run.stream)
               /\ Truthy(DiscussResultOnClose(run.stream, run.code).sessionId) )
             => heap'[children[c].obj].cliSessionId
                  = DiscussResultOnClose(run.stream, run.code).sessionId ]_vars

\* a follow-up turn runs with the token its session's first turn returned
C28_Witness ==
    \E c \in 1..Len(children) :
        /\ c > 1
        /\ children[c].kind = "turn"
        /\ children[c].os = "running"
        /\ children[c].resumeArg = Tok1
        /\ heap[children[c].obj].cliSessionId = Tok1
        /\ children[1].obj = children[c].obj

\* the parsed records of the complete lines of a text, in order
Records(bytes) ==
    LET json == SelectSeq(CompleteLines(<<Decode(bytes)>>), IsJson)
    IN [i \in 1..Len(json) |-> JsonParse(json[i]).o]

\* the response a result record carries: its non-empty string field, else
\* the newline-joined texts of the text blocks of its array field
CarriedResponse(o) ==
    IF IsStr(o.result) /\ o.result.v # <<>> THEN o.result
    ELSE IF IsArr(o.result) /\ TextsOf(o.result.a) # <<>>
    THEN Str(JoinNL(TextsOf(o.result.a)))
    ELSE Undef

\* the response of the terminal result record of a text, if any
TerminalResponse(bytes) ==
    LET res == SelectSeq(Records(bytes), LAMBDA o : o.type = "result")
    IN IF res = <<>> THEN Undef ELSE CarriedResponse(res[Len(res)])

\* the texts of the text blocks of all assistant records of a text, in order
RECURSIVE AssistantTexts(_)
AssistantTexts(recs) ==
    IF recs = <<>> THEN <<>>
    ELSE (IF recs[1].type = "assistant" /\ IsArr(recs[1].content)
          THEN TextsOf(recs[1].content.a) ELSE <<>>)
         \o AssistantTexts(Tail(recs))

\* the response of a closed stream: that of its terminal record, else the
\* text of the last text block of its assistant records, else none
ExtractedResponse(bytes) ==
    LET texts == AssistantTexts(Records(bytes))
    IN IF TerminalResponse(bytes) # Undef THEN TerminalResponse(bytes)
       ELSE IF texts # <<>> THEN Str(texts[Len(texts)])
       ELSE Undef

\* C29: the response is the terminal result record's non-empty string
\* field if it has one; else the newline-joined text of the text blocks of
\* its array field if there is at least one; else, once the process has
\* closed, the text of the last text block seen in any assistant record;
\* else it is absent.
C29_ResponseExtraction ==
    /\ closure.response = TerminalResponse(Delivered)
    /\ resolved # <<>> => resolved[1].response = ExtractedResponse(wire)

\* a terminal record with an empty result string after an assistant record
\* with two text blocks: the response is the text of the second block
C29_Witness ==
    /\ resolved # <<>>
    /\ Len(Records(wire)) = 2
    /\ Records(wire)[2].type = "result"
    /\ Records(wire)[2].result = Str(<<>>)
    /\ closure.response = Undef
    /\ resolved[1].response = Str(T("y", 1))

\* a text with its adjacent runs of one character merged
RECURSIVE Norm(_)
Norm(txt) ==
    IF Len(txt) <= 1 THEN txt
    ELSE IF txt[1].ch = txt[2].ch
    THEN Norm(<<[ch |-> txt[1].ch, n |-> txt[1].n + txt[2].n]>> \o SubSeq(txt, 3, Len(txt)))
    ELSE <<txt[1]>> \o Norm(Tail(txt))

OnlyNewlines(txt) == \A i \in 1..Len(txt) : txt[i].ch = "\n"

\* the chunks are, in order, consecutive pieces of the text, with nothing
\* but newline characters left out, after a piece
RECURSIVE Covers(_, _)
Covers(full, cs) ==
    IF cs = <<>> THEN OnlyNewlines(full)
    ELSE /\ TextLen(cs[1]) <= TextLen(full)
         /\ Norm(Take(full, TextLen(cs[1]))) = Norm(cs[1])
         /\ Covers(DropLeadingNL(Drop(full, TextLen(cs[1]))), Tail(cs))

\* the call that delivers chunk i
CallFor(i) ==
    IF i = 1 /\ placeholderTs # 0
    THEN UpdateCall("T1", chunkList[1], placeholderTs)
    ELSE PostCall("T1", chunkList[i])

\* C30: chunkResponse returns, for every text, non-empty chunks of at most
\* SLACK_MAX_LENGTH characters that are, in order, the text with nothing but
\* newline characters removed where it was split; a text within the budget
\* comes back as one chunk, itself.  The first chunk is written to the
\* placeholder, or posted when there is none; the others are posted in the
\* thread one after the other, in order, and all of them when no call
\* fails.
C30_ChunkedDelivery ==
    /\ [](dpc # "build"
            => /\ chunkList # <<>>
               /\ \A i \in 1..Len(chunkList) :
                     /\ TextLen(chunkList[i]) > 0
                     /\ TextLen(chunkList[i]) <= SLACK_MAX_LENGTH
               /\ Covers(fullText, chunkList)
               /\ TextLen(fullText) <= SLACK_MAX_LENGTH => chunkList = <<fullText>>
               /\ out # <<>> => out = <<CallFor(nextChunk - 1)>>)
    /\ [][ /\ nextChunk' # nextChunk
               => /\ nextChunk' = nextChunk + 1
                  /\ nextChunk <= Len(chunkList')
                  /\ out' = IF nextChunk = 1 /\ placeholderTs # 0
                            THEN <<UpdateCall("T1", chunkList'[1], placeholderTs)>>
                            ELSE <<PostCall("T1", chunkList'[nextChunk])>>
           /\ (dpc # "done" /\ dpc' = "done" /\ nextChunk' = nextChunk)
               => nextChunk > Len(chunkList) ]_vars

\* a text of three chunks, split once at a blank line and once at the
\* budget, was sent chunk by chunk: the first chunk to the placeholder
C30_Witness ==
    /\ dpc = "done"
    /\ placeholderTs # 0
    /\ Len(chunkList) = 3
    /\ nextChunk = 4
    /\ fullText[2].ch = "\n" /\ fullText[2].n = 2
    /\ TextLen(chunkList[1]) = 2
    /\ TextLen(chunkList[2]) = SLACK_MAX_LENGTH
    /\ TextLen(chunkList[3]) = 1


\* ------------------------------------------------------------------------
\* Workflows: feedback window, removal, duplicates, supervision
\* ------------------------------------------------------------------------
RegisteredWorkflows == { w \in 1..Len(wheap) :
                  \E k \in WorkflowKinds, t \in Threads : workflows[k][t] = w }

\* the investigation and follow-up subprocesses of workflow object w that
\* have not exited
LiveProcs(w) == { p \in 1..Len(procs) :
                    /\ procs[p].wf = w
                    /\ procs[p].os = "running"
                    /\ procs[p].purpose \in {"investigate", "followup"} }

\* cleanup of workflow object w is between its start and its removal
CleanupInProgress(w) ==
    \/ \E p \in 1..Len(procs) :
           procs[p].wf = w /\ procs[p].os = "running" /\ procs[p].purpose = "off"
    \/ \E i \in 1..Len(tasks) : tasks[i].kind = "post" /\ tasks[i].wf = w

\* the start of workflow object w is awaiting the PagerDuty acknowledgement
AwaitingAck(w) == \E i \in 1..Len(tasks) : tasks[i].kind = "ack" /\ tasks[i].wf = w

\* this step starts the cleanup of workflow object w
CleanupStarts(w) ==
    /\ w \in 1..Len(wheap)
    /\ wheap[w].feedbackTimer
    /\ ~CleanupInProgress(w)
    /\ CleanupInProgress(w)'

\* this step delivers the completion of an investigation or follow-up p
CompletionOf(p) ==
    /\ p \in 1..Len(procs)
    /\ procs[p].purpose \in {"investigate", "followup"}
    /\ procs[p].os = "running"
    /\ procs'[p].os = "gone"

\* this step spawns a follow-up for workflow object w
FollowUpFor(w) ==
    /\ Len(procs') = Len(procs) + 1
    /\ procs'[Len(procs')].purpose = "followup"
    /\ procs'[Len(procs')].wf = w

\* C23: a completion of a registered workflow's subprocess arms its feedback
\* timer; a follow-up spawned by an owner reply carries the reply text, is
\* the workflow's subprocess and leaves the timer cancelled; the cleanup run
\* by the timer's expiry terminates every live subprocess of the workflow,
\* and the return of its completion notice leaves the thread without a
\* registered workflow.
C23_FeedbackWindow ==
    [][ /\ \A p \in 1..Len(procs) :
              CompletionOf(p) /\ procs[p].wf \in RegisteredWorkflows
                  => wheap'[procs[p].wf].feedbackTimer
        /\ \A w \in 1..Len(wheap) :
              FollowUpFor(w) =>
                  /\ w \in RegisteredWorkflows
                  /\ ~wheap'[w].feedbackTimer
                  /\ wheap'[w].cliChild = Len(procs')
                  /\ procs'[Len(procs')].text \in FeedbackTexts
        /\ \A w \in 1..Len(wheap) :
              CleanupStarts(w) =>
                  \A p \in LiveProcs(w) : procs'[p].signalled
        /\ \A i \in 1..Len(tasks) :
              (tasks[i].kind = "post" /\ Len(tasks') < Len(tasks)
                  /\ \A j \in 1..Len(tasks') : tasks'[j].kind # "post")
                  => workflows'[tasks[i].wkind][tasks[i].thread] = 0
      ]_vars

\* C24 as stated: every registered workflow has a running subprocess, an
\* armed feedback timer or a cleanup in progress.
C24_RegisteredIsSupervised ==
    \A w \in RegisteredWorkflows :
        \/ LiveProcs(w) # {}
        \/ wheap[w].feedbackTimer
        \/ CleanupInProgress(w)

\* C24 amended: every registered workflow has a running subprocess, an armed
\* feedback timer, a cleanup in progress, or a start that is awaiting the
\* PagerDuty acknowledgement.
C24_RegisteredIsSupervisedOrStarting ==
    \A w \in RegisteredWorkflows :
        \/ LiveProcs(w) # {}
        \/ wheap[w].feedbackTimer
        \/ CleanupInProgress(w)
        \/ AwaitingAck(w)

\* a registered workflow whose subprocess has exited waits on its timer
C24_Witness ==
    \E w \in RegisteredWorkflows :
        /\ LiveProcs(w) = {}
        /\ ~CleanupInProgress(w)
        /\ wheap[w].feedbackTimer
        /\ \E p \in 1..Len(procs) : procs[p].os = "gone"

\* C25: no two registered delay-alert workflows have the same dagName, and
\* a message id that has an alert workflow is never given another one.
C25_DuplicateSuppression ==
    /\ [](\A t1, t2 \in Threads :
            /\ workflows["delay_alert"][t1] # 0
            /\ workflows["delay_alert"][t2] # 0
            /\ wheap[workflows["delay_alert"][t1]].dagName
                 = wheap[workflows["delay_alert"][t2]].dagName
            => t1 = t2)
    /\ [][\A t \in Threads :
            workflows["alert"][t] # 0
                => workflows'["alert"][t] \in {0, workflows["alert"][t]}]_vars

\* C26: every running subprocess of a workflow has a timeout timer armed.
C26_TimeoutSupervisesShapeA ==
    \A p \in 1..Len(procs) :
        procs[p].os = "running" => procs[p].timeoutArmed

\* ------------------------------------------------------------------------
\* Handle and flag, removal while a turn is in flight, the pending buffer
\* ------------------------------------------------------------------------
\* this step resolves the completion promise that child c's handler awaits
Finalizes(c) ==
    /\ c \in 1..Len(children)
    /\ children[c].pc = "awaitDone"
    /\ children'[c].pc # "awaitDone"

\* C31: a session held in the registry has a subprocess handle only while
\* it is flagged as processing, and the step that finalizes a turn or a
\* compact leaves the session it ran for with no handle and no flag.
C31_HandleOnlyWhileProcessing ==
    /\ [](\A d \in 1..Len(heap) :
            Registered(d) /\ heap[d].cliChild # 0 => heap[d].isProcessing)
    /\ [][\A c \in 1..MaxChildren :
            Finalizes(c) =>
                /\ heap'[children[c].obj].cliChild = 0
                /\ ~heap'[children[c].obj].isProcessing]_vars

\* a registered session with a token whose compact has finalized: it has
\* no handle and no flag
C31_Witness ==
    \E t \in Threads, c \in 1..Len(children) :
        /\ discussions[t] # 0
        /\ heap[discussions[t]].cliChild = 0
        /\ ~heap[discussions[t]].isProcessing
        /\ Truthy(heap[discussions[t]].cliSessionId)
        /\ children[c].kind = "compact"
        /\ children[c].pc = "finished"
        /\ out # <<>>

\* this step removes the session of thread t, and no other, from the registry
RemovesOnly(t) ==
    /\ discussions[t] # 0
    /\ discussions'[t] = 0
    /\ \A u \in Threads \ {t} : discussions'[u] = discussions[u]

\* C32: the step by which handleDiscussExit or killDiscussSession removes a
\* session leaves every subprocess launched for it that still runs
\* signalled, and leaves no start or reply of it suspended at its
\* placeholder post, from where it would go on to spawn a subprocess.
C32_RemovalStopsSubprocesses ==
    [][\A t \in Threads :
         RemovesOnly(t) =>
            /\ \A c \in ChildrenOf(discussions[t]) :
                  children'[c].os = "running" => children'[c].signalled
            /\ \A i \in 1..Len(pend') : pend'[i].obj # discussions[t]]_vars

\* C33: the finalization of a turn whose session is no longer in the
\* registry makes no chat call and leaves the persisted rows as they were.
C33_OrphanTurnIsSilent ==
    [][\A c \in 1..MaxChildren :
         ( /\ Finalizes(c)
           /\ children[c].kind = "turn"
           /\ ~Registered(children[c].obj) )
         => /\ out' = <<>>
            /\ db' = db]_vars

\* C34: a running subprocess of a registered workflow that no one has
\* signalled is the one the workflow's cliChild refers to, and the
\* workflow's feedback timer is not armed while it runs.
C34_HandleTracksLiveSubprocess ==
    \A w \in RegisteredWorkflows :
        \A p \in LiveProcs(w) :
            ~procs[p].signalled =>
                /\ wheap[w].cliChild = p
                /\ ~wheap[w].feedbackTimer

\* this step is the end of a cleanup: its completion notice returns and the
\* workflow registered for thread t is removed
CleanupRemoves(k, t) ==
    /\ workflows[k][t] # 0
    /\ workflows'[k][t] = 0
    /\ \E i \in 1..Len(tasks) :
         /\ tasks[i].kind = "post" /\ tasks[i].wkind = k /\ tasks[i].thread = t
         /\ tasks' = RemoveAt(tasks, i)

\* C35: when a cleanup removes a workflow from its registry, every
\* investigation or follow-up subprocess of that workflow that still runs
\* has been signalled.
C35_CleanupLeavesNothingRunning ==
    [][\A k \in WorkflowKinds, t \in Threads :
         CleanupRemoves(k, t) =>
            \A p \in LiveProcs(workflows[k][t]) : procs'[p].signalled]_vars

\* the newline-terminated lines of what a subprocess wrote, and the text
\* after its last newline
TerminatedLines(w) == LET segs == SplitNL(w) IN SubSeq(segs, 1, Len(segs) - 1)
UnterminatedTail(w) == LET segs == SplitNL(w) IN segs[Len(segs)]
HoldsResult(line) ==
    \E j \in 1..Len(line) :
        line[j].c = "obj" /\ line[j].o.t = "object" /\ line[j].o.type = "result"

\* the text of a text block of an assistant record written on w
IsAssistantText(w, v) ==
    \E j \in 1..Len(w) :
        /\ w[j].c = "obj" /\ w[j].o.t = "object" /\ w[j].o.type = "assistant"
        /\ IsArr(w[j].o.content)
        /\ \E b \in 1..Len(w[j].o.content.a) :
             IsTextBlock(w[j].o.content.a[b]) /\ w[j].o.content.a[b].text = v

\* C39: the turn result of a subprocess none of whose newline-terminated
\* lines holds a result record has no cost, no session id and no turn
\* count, and its response is absent or the text of an assistant record,
\* whatever the text after the last newline is; and a chunk that completes
\* no line changes nothing but the pending buffer.
C39_PendingBufferNeverParsed ==
    /\ []((/\ resolved # <<>>
           /\ \A i \in 1..Len(TerminatedLines(wire)) :
                 ~HoldsResult(TerminatedLines(wire)[i]))
          => /\ resolved[1].costUsd = Undef
             /\ resolved[1].sessionId = Undef
             /\ resolved[1].numTurns = Undef
             /\ \/ resolved[1].response = Undef
                \/ IsAssistantText(wire, resolved[1].response))
    /\ [][(/\ sent' > sent
           /\ \A j \in (sent + 1)..sent' : wire[j].c # "nl")
          => [closure' EXCEPT !.stdout = <<>>] = [closure EXCEPT !.stdout = <<>>]]_vars

\* a subprocess whose last line is a whole result record with a session id
\* and no newline after it has closed: the turn result has no session id
C39_Witness ==
    /\ resolved # <<>>
    /\ UnterminatedTail(wire) = <<OBJ(ResultRec(Hi, Tok2)), END>>
    /\ TerminatedLines(wire) # <<>>
    /\ resolved[1].sessionId = Undef
    /\ resolved[1].response # Undef


\* the owner's message on thread t whose text without the mention is a
\* discuss command
OwnerCommand(m, t) ==
    /\ m.user = "owner"
    /\ hasMention(m.text)
    /\ stripMention(m.text) \in {ExitCmd, CompactCmd}
    /\ RouterMessage(m.user, m.dm, m.edit, t, m.text)

\* C36: a router step for an owner message that is exactly '!exit' or
\* '!compact' registers no session for the thread that had none and leaves
\* no start or reply suspended at its placeholder post, from where it would
\* go on to spawn a subprocess.
C36_CommandsStartNothing ==
    [][\A m \in Messages, t \in Active :
         OwnerCommand(m, t) =>
            /\ discussions[t] = 0 => discussions'[t] = 0
            /\ Len(pend') <= Len(pend)]_vars

\* a message of someone who is not the owner
ForeignMessage(m, t) ==
    /\ m.user # "owner"
    /\ RouterMessage(m.user, m.dm, m.edit, t, m.text)

\* C37: a router step for a message of a user other than the owner, or of a
\* bot, leaves the registry, the sessions, the persisted rows, the suspended
\* handlers and the subprocesses as they were; it makes at most one chat
\* call, the decline notice, and makes it only for a user who mentioned the
\* bot.  (A step that returns without a call meets this for every message.)
C37_ForeignMessagesChangeNothing ==
    [][\/ Ignored
       \/ \A m \in Messages, t \in Active :
            ForeignMessage(m, t) =>
               /\ UNCHANGED <<booted, discussions, heap, db, pend, children, msgs>>
               /\ out' \in { <<>>, <<PostCall(IF m.dm THEN "" ELSE t, DeclineText)>> }
               /\ out' # <<>> => m.user = "other" /\ hasMention(m.text)]_vars

\* a decline notice has just been posted on a thread whose session is
\* running a turn
C37_Witness ==
    \E t \in Active :
        /\ out = <<PostCall(t, DeclineText)>>
        /\ discussions[t] # 0
        /\ heap[discussions[t]].isProcessing
        /\ \E c \in 1..Len(children) : children[c].os = "running"


\* the monitor starts a workflow for dag on the message t
MonitorStarts(t, dag) ==
    /\ MonitorDelayAlert(t, dag)
    /\ workflows["delay_alert"][t] = 0
    /\ workflows'["delay_alert"][t] # 0

\* C38: once the counters are restored, the row of every dag holds the count
\* its in-memory counter holds, and a counter holds counted alerts only
\* while its window timer is armed; the monitor starts a workflow for a dag
\* only with the alert that brings such a counter to delayAlertThreshold and
\* with no workflow active for the dag; that step, and the expiry of the
\* window, leave the dag without counter, timer and row.
C38_CounterWindowAndPersistence ==
    /\ [](booted =>
            \A dag \in Dags :
               /\ alertCounters[dag].row = CounterRow(alertCounters[dag].count, FALSE)
               /\ alertCounters[dag].count > 0 <=> alertCounters[dag].timer)
    /\ [][\A dag \in Dags :
            /\ \A t \in Threads :
                  MonitorStarts(t, dag) =>
                     /\ alertCounters[dag].count + 1 >= DelayAlertThreshold
                     /\ ~isWorkflowActiveForDag(dag)
                     /\ alertCounters'[dag] = NoCounter
            /\ alertCounters[dag].timer /\ ~alertCounters'[dag].timer =>
                  alertCounters'[dag] = NoCounter]_vars

\* the monitor has started a workflow for one dag, whose counter is gone,
\* while the alerts of the other dag are being counted
C38_Witness ==
    /\ booted
    /\ \E t \in Threads, dag \in Dags :
          /\ workflows["delay_alert"][t] # 0
          /\ wheap[workflows["delay_alert"][t]].dagName = dag
          /\ alertCounters[dag] = NoCounter
          /\ \E other \in Dags \ {dag} :
                /\ alertCounters[other].count > 0
                /\ alertCounters[other].row.count = alertCounters[other].count

====
